---- MODULE Spec2Model ----
(***************************************************************************)
(* GridForm: the pattern evaluation and compositing pipeline, the frame    *)
(* loop and the UI handlers that change what the loop reads.               *)
(*                                                                         *)
(* Two builds of the program are in the repository: src/js/scripts.js      *)
(* (build "scripts", with the cellular automaton) and the richer variant   *)
(* at src/unnamed/part_000 lines 841.. (build "rich": frame limiting,      *)
(* noise variants, background colour, no cellular pattern).  The variable  *)
(* build says which one runs; it never changes.                            *)
(*                                                                         *)
(* Numbers: a JavaScript number r is kept in fixed point as the integer    *)
(* floor(r * Unit).  time, pattern values, speeds, scales, coordinates and *)
(* angles (radians) are all in these units.                                *)
(***************************************************************************)
EXTENDS Integers, Sequences, FiniteSets, TLC

\* ------------------------------------------------------------- fixed point
Unit == 10 * 100
Half == Unit \div 2
PiM == (Unit * 355) \div 113
TwoPiM == 2 * PiM

\* the element of a one-element set: Only({ F(v) : v \in { e } }) is F(e) with
\* e evaluated once
Only(S) == CHOOSE v \in S : TRUE

Abs(a) == IF a < 0 THEN -a ELSE a
Min2(a, b) == IF a < b THEN a ELSE b
Max2(a, b) == IF a > b THEN a ELSE b

\* constrain() that passes its argument through
ConstrainNone(n, low, high) == n

\* p5 constrain(n, low, high)
Constrain(n, low, high) == Max2(Min2(n, high), low)

\* lerp() with start and stop exchanged
LerpSwapped(start, stop, amt) == stop + ((start - stop) * amt) \div Unit

\* p5 lerp(start, stop, amt) = start + (stop - start) * amt
Lerp(start, stop, amt) == start + ((stop - start) * amt) \div Unit

\* Product of two fixed-point numbers
Mul(a, b) == (a * b) \div Unit

\* sin on [0, pi] (Bhaskara's rational approximation), exact at 0, pi/2, pi
SinHalf(x) ==
    LET u == (4 * x * (PiM - x)) \div PiM
    IN  (Unit * 4 * u) \div (5 * PiM - u)

\* Math.sin / p5 sin, argument in radians
Sin(a) ==
    LET r == a % TwoPiM
    IN  IF r <= PiM THEN SinHalf(r) ELSE -SinHalf(r - PiM)

\* Math.cos / p5 cos
Cos(a) == Sin(a + PiM \div 2)

RECURSIVE SqrtIter(_, _, _)
SqrtIter(n, lo, hi) ==
    IF lo >= hi THEN lo
    ELSE LET mid == (lo + hi + 1) \div 2
         IN  IF mid * mid <= n THEN SqrtIter(n, mid, hi)
             ELSE SqrtIter(n, lo, mid - 1)

\* floor(sqrt(n)) of a non-negative integer below 2^26
ISqrt(n) == SqrtIter(n, 0, 8191)

\* p5 sqrt of a fixed-point number
Sqrt(a) == ISqrt(a * Unit)

\* p5 dist(x1, y1, x2, y2)
Dist(x1, y1, x2, y2) == ISqrt((x2 - x1) * (x2 - x1) + (y2 - y1) * (y2 - y1))

\* atan(z) for 0 <= z <= 1:  z * (pi/4 + 0.273 * (1 - z))
AtanUnit(z) == Mul(z, PiM \div 4 + Mul(273, Unit - z))

\* atan2 in the first quadrant (x >= 0, y >= 0, not both 0)
AtanQ1(y, x) ==
    IF y <= x THEN AtanUnit((y * Unit) \div x)
    ELSE PiM \div 2 - AtanUnit((x * Unit) \div y)

\* Math.atan2 / p5 atan2(y, x), result in (-pi, pi]
Atan2(y, x) ==
    IF x = 0 /\ y = 0 THEN 0
    ELSE LET a == AtanQ1(Abs(y), Abs(x))
             b == IF x < 0 THEN PiM - a ELSE a
         IN  IF y < 0 THEN -b ELSE b

\* p5 noise(x, y, z): a fixed pseudo-random field with values in [0, 1)
Noise(x, y, z) ==
    LET ix == x \div Half
        iy == y \div Half
        iz == z \div Half
    IN  ((ix * 7919 + iy * 104729 + iz * 1299709) % 1009 * 991) % Unit

\* ------------------------------------------------------------ program state
VARIABLES
    build,            \* "scripts" (src/js/scripts.js), "rich" (part_000, 841..) or,
                      \* for mousePressed only, "early" (part_000, 1..840)
    time,             \* let time: the animation time accumulator
    frameCount,       \* rendered frames
    lastFrameTime,    \* rich: Date.now() of the last rendered frame (ms)
    isPaused,         \* let isPaused
    looping,          \* p5's loop flag, cleared by noLoop(), set by loop()
    speedMultiplier,  \* let speedMultiplier (fixed point)
    targetFPS,        \* rich: let targetFPS
    gridCols,         \* let gridCols
    gridRows,         \* let gridRows
    settings,         \* let settings: pattern1, pattern2, blendSettings, interactive
    backgroundColor,  \* rich: settings.colors.backgroundColor
    currentRamp1,     \* let currentRamp1 (a string, as a sequence of glyphs)
    currentRamp2,     \* let currentRamp2
    charSet,          \* value of the pattern1CharSet / pattern2CharSet selects
    customChars,      \* text of the pattern1CustomChars / pattern2CustomChars inputs
    hidden,           \* document.hidden
    colors,           \* rich: settings.colors (base colours, animation, palette)
    webcam,           \* rich: let webcamMode, isWebcamActive, webcamStream,
                      \* webcamInterval, the video element and the media streams
    isSaving,         \* setupDownloadButton: let isSaving
    timers,           \* the pending setTimeout callbacks, in the order they were set
    now,              \* the time of the last click or timer callback (ms)
    canvas,           \* rich: the globals canvas, width and height
    exported,         \* history: accepted download clicks, exportCanvasFile calls,
                      \* exceptions of these, GIF recordings started
    mousePos,         \* let mousePos
    clickEffects,     \* let clickEffects
    cellularGrid,     \* scripts: let cellularGrid
    voronoiPoints,    \* let voronoiPoints
    screen,           \* the glyph drawn at each cell by the last rendered frame
    textContent,      \* the text written by the last exportTextFile
    frameUpdates,     \* history: updateCellular calls made by the last draw()
    frameSnapshot,    \* history: the inputs the last rendered frame was drawn from
    nextId,           \* history: number of click effects created so far
    decrements,       \* history: per click effect, its life decrements so far
    lastOp,           \* history: the operation that produced this state
    ops,              \* history: number of UI operations so far
    call              \* history: the last call of a function made on its own

\* ------------------------------------------------------- program constants
CellCols == 40
CellRows == 30
NumVoronoi == 8
ClickLife == 3000
FrameDelta == 16
CellularPeriod == 30
MosaicMod == 1000000

PatternTypes ==
    { "waves", "ripples", "noise", "spiral", "checkerboard", "stripes", "plasma",
      "mandelbrot", "julia", "cellular", "voronoi", "tunnel", "mosaic" }
NoiseVariants == { "simplex", "turbulence", "ridged" }
BlendModes == { "add", "multiply", "overlay", "difference", "screen" }
InteractiveTypes == { "ripple", "attract", "repel", "trail", "distort" }

\* time * speed * k, the phase terms of the patterns
Phase(t, speed, k) == (t * speed * k) \div Unit

\* floor(time * speed * 100)
TimeStep(t, speed) == (t * speed * 100) \div (Unit * Unit)

\* --------------------------------------------------------------- fractals
RECURSIVE MandelLoop(_, _, _, _, _, _)
MandelLoop(zx, zy, cx, cy, i, maxIter) ==
    IF i >= maxIter THEN maxIter
    ELSE IF Mul(zx, zx) + Mul(zy, zy) > 4 * Unit THEN i
    ELSE MandelLoop(Mul(zx, zx) - Mul(zy, zy) + cx,
                    Mul(2 * zx, zy) + cy, cx, cy, i + 1, maxIter)

mandelbrotIteration(cx, cy, maxIter) == MandelLoop(0, 0, cx, cy, 0, maxIter)

juliaIteration(zx, zy, c, maxIter) == MandelLoop(zx, zy, c.x, c.y, 0, maxIter)

\* ------------------------------------------------------- cellular automaton
\* cellularGrid is held as the set of the cells << x, y >> whose entry
\* cellularGrid[y][x] is true
CellIndex == (0 .. CellCols - 1) \X (0 .. CellRows - 1)

CellOffsets == { d \in (-1 .. 1) \X (-1 .. 1) : ~(d[1] = 0 /\ d[2] = 0) }

\* a neighbour count that does not skip dx = 0, dy = 0
CountNeighborsAndSelf(grid, x, y) ==
    Cardinality({ d \in (-1 .. 1) \X (-1 .. 1) :
        << x + d[1], y + d[2] >> \in grid \cap CellIndex })

\* the neighbour count of updateCellular's two inner loops
CountNeighbors(grid, x, y) ==
    Cardinality({ d \in CellOffsets :
        LET nx == x + d[1]
            ny == y + d[2]
        IN  /\ nx >= 0 /\ nx < CellCols /\ ny >= 0 /\ ny < CellRows
            /\ << nx, ny >> \in grid })

\* the cells of the grid that have a true cell next to them; every other cell
\* counts neighbors = 0 and gets false from either branch of the rule
NearLive(grid) ==
    UNION { { << c[1] + d[1], c[2] + d[2] >> : d \in CellOffsets } \cap CellIndex
            : c \in grid }

\* the cells newGrid holds as true
NewGridCells(grid) ==
    { c \in NearLive(grid) :
        IF c \in grid THEN CountNeighbors(grid, c[1], c[2]) \in { 2, 3 }
        ELSE CountNeighbors(grid, c[1], c[2]) = 3 }

\* updateCellular(): newGrid is filled cell by cell from the old grid, then
\* replaces it
updateCellular(grid) == { c : c \in NewGridCells(grid) }

\* ------------------------------------------------------------ voronoi swarm
\* the first loop's body without its two constrain() lines
AdvancePointUnclamped(p) ==
    [ x  |-> p.x + p.vx,
      y  |-> p.y + p.vy,
      vx |-> IF p.x + p.vx <= 0 \/ p.x + p.vx >= Unit THEN -p.vx ELSE p.vx,
      vy |-> IF p.y + p.vy <= 0 \/ p.y + p.vy >= Unit THEN -p.vy ELSE p.vy ]

\* a bounce that loses half of the speed
AdvancePointDamped(p) ==
    LET x1 == p.x + p.vx
        y1 == p.y + p.vy
    IN  [ x  |-> Constrain(x1, 0, Unit),
          y  |-> Constrain(y1, 0, Unit),
          vx |-> IF x1 <= 0 \/ x1 >= Unit THEN -(p.vx \div 2) ELSE p.vx,
          vy |-> IF y1 <= 0 \/ y1 >= Unit THEN -(p.vy \div 2) ELSE p.vy ]

\* one point of getVoronoiValue's first loop: move, bounce, clamp
AdvancePoint(p) ==
    LET x1 == p.x + p.vx
        y1 == p.y + p.vy
    IN  [ x  |-> Constrain(x1, 0, Unit),
          y  |-> Constrain(y1, 0, Unit),
          vx |-> IF x1 <= 0 \/ x1 >= Unit THEN -p.vx ELSE p.vx,
          vy |-> IF y1 <= 0 \/ y1 >= Unit THEN -p.vy ELSE p.vy ]

\* the first loop, point by point
RECURSIVE AdvanceFrom(_, _)
AdvanceFrom(points, i) ==
    IF i > Len(points) THEN << >>
    ELSE Only({ << AdvancePoint(p) >> : p \in { points[i] } })
         \o AdvanceFrom(points, i + 1)

AdvanceVoronoi(points) == AdvanceFrom(points, 1)

Infinity == Unit * Unit

\* getVoronoiValue's second loop: the two smallest distances, in point order
RECURSIVE NearestTwo(_, _, _, _, _, _)
NearestTwo(points, i, x, y, minDist, secondMinDist) ==
    IF i > Len(points) THEN << minDist, secondMinDist >>
    ELSE Only({ IF d < minDist THEN NearestTwo(points, i + 1, x, y, d, minDist)
                ELSE IF d < secondMinDist
                     THEN NearestTwo(points, i + 1, x, y, minDist, d)
                     ELSE NearestTwo(points, i + 1, x, y, minDist, secondMinDist)
                : d \in { Dist(x, y, points[i].x, points[i].y) } })

\* getVoronoiValue(x, y, timeOffset): the value and the advanced points
getVoronoiValue(points, x, y, t, speed) ==
    Only({ Only({ [ value |-> ((near[2] - near[1]) * 10
                                + Sin(Phase(t, speed, 100))) * 2 - Unit,
                    voronoiPoints |-> moved ]
                  : near \in { NearestTwo(moved, 1, x, y, Infinity, Infinity) } })
           : moved \in { AdvanceVoronoi(points) } })

\* ------------------------------------------------------------ mosaic hash
\* JavaScript's ^ works on 32-bit integers.  A 32-bit word is kept as its two
\* 16-bit halves << hi, lo >> so that no intermediate result leaves 31 bits.
W16 == 2 ^ 16

\* ToInt32(m * k) for a small non-negative m and a 32-bit constant k
MulWord(m, kHi, kLo) ==
    LET low == m * kLo
    IN  << (m * kHi + (low \div W16)) % W16, low % W16 >>

RECURSIVE XorBits(_, _, _)
XorBits(a, b, n) ==
    IF n = 0 THEN 0
    ELSE (IF (a % 2) = (b % 2) THEN 0 ELSE 1) + 2 * XorBits(a \div 2, b \div 2, n - 1)

XorWord(a, b) == << XorBits(a[1], b[1], 16), XorBits(a[2], b[2], 16) >>

\* (hi * 2^16 + lo) % m, for hi, lo < 2^16 + 1
WordMod(hi, lo, m) == (((((hi * 256) % m) * 256) % m) + lo) % m

\* JavaScript (w % m) of the signed 32-bit integer w: the sign of the dividend
SignedRem(w, m) ==
    IF w[1] < W16 \div 2 THEN WordMod(w[1], w[2], m)
    ELSE -WordMod(W16 - 1 - w[1], W16 - w[2], m)

\* ((mosaicX * 73856093) ^ (mosaicY * 19349663)) % 1000000
mosaicHash(mosaicX, mosaicY) ==
    SignedRem(XorWord(MulWord(mosaicX, 73856093 \div W16, 73856093 % W16),
                      MulWord(mosaicY, 19349663 \div W16, 19349663 % W16)),
              MosaicMod)

\* ---------------------------------------------------------- getPatternValue
\* turbulence: 4 octaves, amplitude halving, frequency doubling
RECURSIVE Turbulence(_, _, _, _, _, _)
Turbulence(nx, ny, nz, amplitude, frequency, i) ==
    IF i >= 4 THEN 0
    ELSE Mul(amplitude, Noise(nx * frequency, ny * frequency, nz * frequency))
         + Turbulence(nx, ny, nz, amplitude \div 2, frequency * 2, i + 1)

NoiseValue(nx, ny, nz, noiseVariant) ==
    CASE noiseVariant = "turbulence" ->
            ((Turbulence(nx, ny, nz, Unit, 1, 0) * Unit) \div 1875) * 2 - Unit
      [] noiseVariant = "ridged" ->
            Unit - Abs(Noise(nx, ny, nz) * 2 - Unit) * 2 - Unit
      [] OTHER -> Noise(nx, ny, nz) * 2 - Unit

\* the iteration limit of the mandelbrot and julia cases
FractalIterations == IF build = "scripts" THEN 20 ELSE IF targetFPS <= 30 THEN 10 ELSE 15

\* The switch of getPatternValue: the raw value in [-1, 1] of a stateless kind
\* (x, y are the cell's column and row, nx, ny its normalized coordinates).
RawValue(x, y, pattern, t) ==
    LET nx == (x * Unit) \div gridCols
        ny == (y * Unit) \div gridRows
        sp == pattern.speed
        sc == pattern.scale
        k  == pattern.type
    IN  CASE k = "waves" ->
               (Sin((x * TwoPiM * 5) \div gridCols + Phase(t, sp, 100))
                + Sin((y * TwoPiM * 3) \div gridRows + Phase(t, sp, 80))) \div 2
          [] k = "ripples" ->
               Sin(Mul(Dist(nx, ny, Half, Half), TwoPiM * 10) - Phase(t, sp, 200))
          [] k = "noise" ->
               NoiseValue(Mul(nx, sc * 100), Mul(ny, sc * 100), Phase(t, sp, 10),
                          IF build = "rich" THEN pattern.noiseVariant ELSE "simplex")
          [] k = "spiral" ->
               Sin(Atan2(ny - Half, nx - Half) * 3 + Dist(nx, ny, Half, Half) * 20
                   + Phase(t, sp, 100))
          [] k = "checkerboard" ->
               LET checkX == (x * sc * 100) \div (gridCols * Unit)
                   checkY == (y * sc * 100) \div (gridRows * Unit)
               IN  ((checkX + checkY + TimeStep(t, sp)) % 2) * 2 * Unit - Unit
          [] k = "stripes" ->
               Sin(Mul(nx + ny, sc * 200) + Phase(t, sp, 100))
          [] k = "plasma" ->
               (Sin(nx * 16 + Phase(t, sp, 80))
                + Sin(ny * 8 + Phase(t, sp, 60))
                + Sin((nx + ny) * 16 + Phase(t, sp, 40))
                + Sin(Sqrt(Mul(nx, nx) + Mul(ny, ny)) * 8 + Phase(t, sp, 120))) \div 4
          [] k = "mandelbrot" ->
               LET zx == (nx - Half) * 4
                   zy == (ny - Half) * 4
                   cx == zx + Mul(Sin(Phase(t, sp, 50)), 300)
                   cy == zy + Mul(Cos(Phase(t, sp, 30)), 300)
               IN  (mandelbrotIteration(cx, cy, FractalIterations) * Unit)
                       \div FractalIterations
          [] k = "julia" ->
               LET jx == (nx - Half) * 4
                   jy == (ny - Half) * 4
                   juliaC == [ x |-> Mul(Sin(Phase(t, sp, 100)), 800),
                               y |-> Mul(Cos(Phase(t, sp, 70)), 800) ]
               IN  (juliaIteration(jx, jy, juliaC, FractalIterations) * Unit)
                       \div FractalIterations
          [] k = "tunnel" ->
               LET tunnelAngle == Atan2(ny - Half, nx - Half)
                   tunnelRadius == Dist(nx, ny, Half, Half)
               IN  Mul(Sin(tunnelAngle * 8 + Phase(t, sp, 100)),
                       Sin((Unit * Unit) \div (tunnelRadius + 100) + Phase(t, sp, 50)))
          [] k = "mosaic" ->
               LET mosaicX == (x * sc * 200) \div (gridCols * Unit)
                   mosaicY == (y * sc * 200) \div (gridRows * Unit)
               IN  (mosaicHash(mosaicX, mosaicY) \div 500 - Unit)
                   + Mul(Sin(Phase(t, sp, 100)), 300)
          [] OTHER -> 0

\* Whether this getPatternValue call runs updateCellular first
CellularGate(pattern, t) ==
    /\ build = "scripts"
    /\ pattern.type = "cellular"
    /\ TimeStep(t, pattern.speed) % CellularPeriod = 0

\* getPatternValue that moves the Voronoi points for every kind
getPatternValueMoving(x, y, pattern, t, w) ==
    LET nx == (x * Unit) \div gridCols
        ny == (y * Unit) \div gridRows
    IN  Only({ [ value |-> IF pattern.type = "voronoi" THEN (r.value + Unit) \div 2
                           ELSE (RawValue(x, y, pattern, t) + Unit) \div 2,
                 w |-> [ w EXCEPT !.voronoiPoints = r.voronoiPoints ] ]
               : r \in { getVoronoiValue(w.voronoiPoints, nx, ny, t, pattern.speed) } })

\* getPatternValue(x, y, pattern, time) on the mutable state w (the Voronoi
\* points, the cellular grid, and the count of updateCellular calls): the value
\* returned, normalized to (value + 1) / 2, and the state the call leaves.
getPatternValue(x, y, pattern, t, w) ==
    LET nx == (x * Unit) \div gridCols
        ny == (y * Unit) \div gridRows
    IN  IF pattern.type = "voronoi" THEN
            Only({ [ value |-> (r.value + Unit) \div 2,
                     w |-> [ w EXCEPT !.voronoiPoints = r.voronoiPoints ] ]
                   : r \in { getVoronoiValue(w.voronoiPoints, nx, ny, t,
                                             pattern.speed) } })
        ELSE IF pattern.type = "cellular" /\ build = "scripts" THEN
            LET cellX == (x * CellCols) \div gridCols
                cellY == (y * CellRows) \div gridRows
            IN  Only({ [ value |-> ((IF << cellX, cellY >> \in grid
                                     THEN Unit ELSE -Unit) + Unit) \div 2,
                         w |-> [ w EXCEPT !.cellularGrid = grid,
                                          !.updates = IF CellularGate(pattern, t)
                                                      THEN @ + 1 ELSE @ ] ]
                       : grid \in { IF CellularGate(pattern, t)
                                    THEN updateCellular(w.cellularGrid)
                                    ELSE w.cellularGrid } })
        ELSE [ value |-> (RawValue(x, y, pattern, t) + Unit) \div 2, w |-> w ]

\* --------------------------------------------------------------- compositor
blendValues(value1, value2, mode, amount) ==
    LET v2 == Lerp(Half, value2, amount)
    IN  CASE mode = "add" -> Constrain(value1 + v2 - Half, 0, Unit)
          [] mode = "multiply" -> Mul(value1, v2)
          [] mode = "overlay" ->
                IF value1 < Half THEN Mul(2 * value1, v2)
                ELSE Unit - Mul(2 * (Unit - value1), Unit - v2)
          [] mode = "difference" -> Abs(value1 - v2)
          [] mode = "screen" -> Unit - Mul(Unit - value1, Unit - v2)
          [] OTHER -> value1

\* the pointer's term without the test of the radius
MouseEffectAnywhere(nx, ny, t) ==
    LET mouseDistance == Dist(nx, ny, mousePos.x, mousePos.y)
        radius == settings.interactive.radius
        strength == Mul(Unit - (mouseDistance * Unit) \div radius,
                        settings.interactive.strength)
        k == settings.interactive.type
    IN  IF radius = 0 THEN 0
        ELSE CASE k = "ripple" ->
                    Mul(Mul(Sin(mouseDistance * 20 - t * 5), strength), 300)
               [] k = "attract" -> Mul(strength, Half)
               [] k = "repel" -> -Mul(strength, Half)
               [] k = "trail" -> Mul(Mul(strength, 400), Sin(t * 2))
               [] k = "distort" ->
                    Mul(Mul(Sin(Atan2(ny - mousePos.y, nx - mousePos.x) * 4 + t * 3),
                            strength), 300)
               [] OTHER -> 0

\* ------------------------------------------------------ interaction overlay
\* the pointer-hover term of applyInteractiveEffect
MouseEffect(nx, ny, t) ==
    LET mouseDistance == Dist(nx, ny, mousePos.x, mousePos.y)
        radius == settings.interactive.radius
        strength == Mul(Unit - (mouseDistance * Unit) \div radius,
                        settings.interactive.strength)
        k == settings.interactive.type
    IN  IF ~(mouseDistance < radius) THEN 0
        ELSE CASE k = "ripple" ->
                    Mul(Mul(Sin(mouseDistance * 20 - t * 5), strength), 300)
               [] k = "attract" -> Mul(strength, Half)
               [] k = "repel" -> -Mul(strength, Half)
               [] k = "trail" -> Mul(Mul(strength, 400), Sin(t * 2))
               [] k = "distort" ->
                    Mul(Mul(Sin(Atan2(ny - mousePos.y, nx - mousePos.x) * 4 + t * 3),
                            strength), 300)
               [] OTHER -> 0

\* the term one click effect adds
ClickTerm(nx, ny, clickEffect) ==
    LET clickDistance == Dist(nx, ny, clickEffect.x, clickEffect.y)
        clickStrength ==
            Mul(Mul(Unit - (clickDistance * Unit) \div clickEffect.radius,
                    clickEffect.strength),
                (clickEffect.life * Unit) \div clickEffect.maxLife)
    IN  IF ~(clickDistance < clickEffect.radius) THEN 0
        ELSE Mul(Sin(clickDistance * 15 - (clickEffect.maxLife - clickEffect.life) * 3),
                 clickStrength)

RECURSIVE ClickSum(_, _, _, _)
ClickSum(nx, ny, effects, i) ==
    IF i > Len(effects) THEN 0
    ELSE ClickTerm(nx, ny, effects[i]) + ClickSum(nx, ny, effects, i + 1)

\* applyInteractiveEffect(x, y, baseValue), reading time t and the click effects
applyInteractiveEffect(x, y, baseValue, t, effects) ==
    IF build = "rich" /\ ~settings.interactive.enabled THEN baseValue
    ELSE LET nx == (x * Unit) \div gridCols
             ny == (y * Unit) \div gridRows
             effect == MouseEffect(nx, ny, t) + ClickSum(nx, ny, effects, 1)
         IN  Constrain(baseValue + effect, 0, Unit)

\* updateInteractiveEffects' filter callback on one effect: the aged effect
DecayEffect(effect) == [ effect EXCEPT !.life = @ - FrameDelta ]

\* a filter that tests the life the effect had before this frame
KeepEffectBeforeDecay(aged) == aged.life + FrameDelta > 0

\* ... and whether the filter keeps it
KeepEffect(aged) == aged.life > 0

\* updateInteractiveEffects(): the new clickEffects
updateInteractiveEffects(effects) ==
    IF build = "rich" /\ ~settings.interactive.enabled THEN effects
    ELSE LET aged == [ i \in DOMAIN effects |-> DecayEffect(effects[i]) ]
         IN  SelectSeq(aged, KeepEffect)

\* ------------------------------------------------------------- blendColors
\* A colour string "#rrggbb" is the sequence of its six hexadecimal digits.
\* Channels are integers 0 .. 255; a channel before Math.floor is kept in
\* millionths (Micro) of a channel step.
Micro == Unit * Unit
FullChannel == 255 * Micro

hexToRgb(hex) ==
    IF Len(hex) = 6 /\ \A i \in 1 .. 6 : hex[i] \in 0 .. 15
    THEN [ r |-> 16 * hex[1] + hex[2], g |-> 16 * hex[3] + hex[4],
           b |-> 16 * hex[5] + hex[6] ]
    ELSE [ r |-> 255, g |-> 255, b |-> 255 ]

\* localBlend = value1 * value2 * amount, in millionths
LocalBlend(value1, value2, amount) == (value1 * value2 * amount) \div Unit

\* lerp(c1, target, localBlend) with target in thousandths of a channel step
LerpChannel(c1, target, localBlend) ==
    c1 * Micro + (target - c1 * Unit) * (localBlend \div Unit)

\* one channel of the switch on the blend mode
BlendChannel(c1, c2, mode, localBlend) ==
    CASE mode = "add" -> Constrain(c1 * Micro + c2 * localBlend, 0, FullChannel)
      [] mode = "multiply" -> LerpChannel(c1, (c1 * c2 * Unit) \div 255, localBlend)
      [] mode = "overlay" ->
            LerpChannel(c1,
                        IF c1 < 128 THEN (2 * c1 * c2 * Unit) \div 255
                        ELSE 255 * Unit
                             + (-(2 * (255 - c1) * (255 - c2) * Unit)) \div 255,
                        localBlend)
      [] mode = "difference" -> LerpChannel(c1, Abs(c1 - c2) * Unit, localBlend)
      [] mode = "screen" ->
            LerpChannel(c1,
                        255 * Unit + (-((255 - c1) * (255 - c2) * Unit)) \div 255,
                        localBlend)
      [] OTHER -> LerpChannel(c1, c2 * Unit, localBlend)

\* a channel rounded up instead of down
CeilChannel(r) == (r + Micro - 1) \div Micro

\* Math.floor(r) in the returned rgb(...) string
FloorChannel(r) == r \div Micro

blendColors(color1Hex, color2Hex, mode, value1, value2, amount) ==
    LET color1 == hexToRgb(color1Hex)
        color2 == hexToRgb(color2Hex)
        localBlend == LocalBlend(value1, value2, amount)
    IN  [ r |-> FloorChannel(BlendChannel(color1.r, color2.r, mode, localBlend)),
          g |-> FloorChannel(BlendChannel(color1.g, color2.g, mode, localBlend)),
          b |-> FloorChannel(BlendChannel(color1.b, color2.b, mode, localBlend)) ]

\* ------------------------------------------------------------- glyph mapper
\* the index rounded to the nearest integer instead of down
CharIndexRounded(finalValue, ramp) ==
    Constrain((finalValue * (Len(ramp) - 1) + Half) \div Unit, 0, Len(ramp) - 1)

\* floor(map(finalValue, 0, 1, 0, ramp.length - 1)) constrained to the ramp
CharIndex(finalValue, ramp) ==
    Constrain((finalValue * (Len(ramp) - 1)) \div Unit, 0, Len(ramp) - 1)

\* selectedRamp[charIndex]; indexing past the end gives undefined
MapToChar(finalValue, ramp) ==
    IF CharIndex(finalValue, ramp) + 1 \in DOMAIN ramp
    THEN ramp[CharIndex(finalValue, ramp) + 1] ELSE "undefined"

\* -------------------------------------------------------------- render loop
\* The body of the per-cell loop shared by draw()/renderGrid, exportTextFile
\* and exportHighResCanvas: the glyph of cell (x, y) and the state it leaves.
\* the primary ramp also at a blend strength of exactly 0.5
UseRamp1AtHalf(value1, value2) ==
    \/ ~settings.pattern2.enabled
    \/ settings.blendSettings.amount = 0
    \/ value1 * value2 <= (Half * Micro) \div settings.blendSettings.amount

\* useRamp1: true, or with pattern 2 enabled blendStrength < 0.5, where
\* blendStrength = value1 * value2 * amount. The slider keeps amount in [0,1];
\* the comparison is made on value1 * value2 so that no product leaves the
\* 32-bit range.
UseRamp1(value1, value2) ==
    \/ ~settings.pattern2.enabled
    \/ settings.blendSettings.amount = 0
    \/ value1 * value2 <= (Half * Micro - 1) \div settings.blendSettings.amount

\* finalColor: pattern 1's colour string, or with pattern 2 enabled the
\* blended rgb channels
CellColor(value1, value2) ==
    IF settings.pattern2.enabled
    THEN blendColors(settings.pattern1.color, settings.pattern2.color,
                     settings.blendSettings.mode, value1, value2,
                     settings.blendSettings.amount)
    ELSE settings.pattern1.color

ComposeCell(x, y, t, effects, r1, r2) ==
    LET value1 == r1.value
        value2 == r2.value
        blended == IF settings.pattern2.enabled
                   THEN blendValues(value1, value2, settings.blendSettings.mode,
                                    settings.blendSettings.amount)
                   ELSE value1
        useRamp1 == UseRamp1(value1, value2)
        finalValue == IF settings.interactive.enabled
                      THEN applyInteractiveEffect(x, y, blended, t, effects)
                      ELSE blended
        selectedRamp == IF useRamp1 THEN currentRamp1 ELSE currentRamp2
    IN  [ char |-> MapToChar(finalValue, selectedRamp),
          useRamp1 |-> useRamp1, ramp |-> selectedRamp, blended |-> blended,
          finalValue |-> finalValue,
          w |-> IF settings.pattern2.enabled THEN r2.w ELSE r1.w ]

RenderCell(x, y, t, effects, w) ==
    Only({ Only({ ComposeCell(x, y, t, effects, r1, r2)
                  : r2 \in { IF settings.pattern2.enabled
                             THEN getPatternValue(x, y, settings.pattern2, t, r1.w)
                             ELSE r1 } })
           : r1 \in { getPatternValue(x, y, settings.pattern1, t, w) } })

Cells == (0 .. gridCols - 1) \X (0 .. gridRows - 1)

\* the number of iterations of "for x < gridCols, for y < gridRows": none when
\* a dimension is not positive
CellCount == IF gridCols > 0 /\ gridRows > 0 THEN gridCols * gridRows ELSE 0

\* the visiting order of draw() and exportHighResCanvas: x outer, y inner
ColumnMajor == [ i \in 1 .. CellCount |->
                    << (i - 1) \div gridRows, (i - 1) % gridRows >> ]

\* the visiting order of exportTextFile: y outer, x inner
RowMajor == [ i \in 1 .. CellCount |->
                 << (i - 1) % gridCols, (i - 1) \div gridCols >> ]

\* One pass over the grid in the given order: the glyph of every cell and the
\* state after the last cell.
RECURSIVE RenderPass(_, _, _, _, _, _)
\* a pass that stops after its first cell
RenderPassStopping(order, i, t, effects, w, glyphs) ==
    IF i > Len(order) THEN [ glyphs |-> glyphs, w |-> w ]
    ELSE Only({ [ glyphs |-> [ glyphs EXCEPT ![order[i]] = c.char ], w |-> c.w ]
                : c \in { RenderCell(order[i][1], order[i][2], t, effects, w) } })

RenderPass(order, i, t, effects, w, glyphs) ==
    IF i > Len(order) THEN [ glyphs |-> glyphs, w |-> w ]
    ELSE Only({ Only({ RenderPass(order, i + 1, t, effects, c.w, g)
                       : g \in { [ glyphs EXCEPT ![order[i]] = c.char ] } })
                : c \in { RenderCell(order[i][1], order[i][2], t, effects, w) } })

NoGlyphs == [ c \in Cells |-> "" ]

\* the mutable state the pattern evaluation reads and writes
World == [ voronoiPoints |-> voronoiPoints, cellularGrid |-> cellularGrid, updates |-> 0 ]

\* ------------------------------------------------------------------ bounds
MaxFrames == 2
MaxOps == 2
MaxCols == 2
MaxRows == 2
NumSeeds == 2
MaxClicks == 2
ShortGapMs == 8
LongGapMs == 17
StartMs == 1000
\* the runs of single functions: generations of the automaton, calls of
\* getVoronoiValue, frames after a click, values per unit interval
MaxGenerations == 40
MaxVoronoiCalls == 60
MaxPatternCalls == 2
MaxSwarmCalls == 6
\* the longest base64 text of a copied pattern code
MaxTextLen == 10
\* the widest grid of the mosaic calls
MosaicSize == 4
\* clicks on the webcam button
MaxWebcamClicks == 3
ClickFrames == 190
BlendSteps == 4
\* steps of the value grid and longest prefix ramp of the glyph-mapper calls
GlyphSteps == 8
MaxRampLen == 4

\* the slider and menu values tried
SpeedValues == { 10, 50 }
ScaleValues == { 50, 200 }
AmountValues == { 0, Half, Unit }
SpeedMultipliers == { Unit \div 4, Unit, 4 * Unit }
\* pointer positions, normalized to the grid: one outside it, three inside
PointerValues == { << -(Unit \div 10), Half >>, << 0, 0 >>, << Half, Half >>,
                   << Unit, Unit >> }
RadiusValues == { Unit \div 5, Unit }
Colors == { "#000000", "#202040" }

\* ---------------------------------------------------------------- ramps
ASCII_RAMPS ==
    [ blocks |-> << " ", "u2591", "u2592", "u2593", "u258C", "u258D", "u258E",
                    "u258F", "u258A", "u258B", "u2588" >>,
      ascii  |-> << " ", ".", ":", "-", "=", "+", "*", "#", "%", "@" >>,
      hex |-> << " ", "0", "1", "2", "3", "4", "5", "6", "7", "8", "9", "A", "B",
                 "C", "D", "E", "F" >>,
      numbers |-> << " ", "0", "1", "2", "3", "4", "5", "6", "7", "8", "9" >>,
      letters |-> << " ", "A", "B", "C", "D", "E", "F", "G", "H", "I", "J" >>,
      symbols |-> << " ", "!", "@", "#", "$", "%", "^", "&", "*", "(", ")", "." >>,
      braille |-> << " ", "u2800", "u2801", "u2803", "u2807", "u280F", "u281F",
                     "u283F", "u287F", "u28FF" >>,
      custom |-> << " ", ".", ":", "-", "=", "+", "*", "#", "%", "@" >> ]

\* -------------------------------------------------------- random initializers
\* Math.random() is an input: initVoronoi and initCellular pick one of a few
\* of the configurations they can produce.
VoronoiPoint(i, k) ==
        [ x  |-> (i * 137 + k * 400) % Unit,
          y  |-> (i * 271 + k * 130) % Unit,
          vx |-> ((i * 7 + k * 5) % 20) - 10,
          vy |-> ((i * 3 + k) % 20) - 10 ]

RECURSIVE SeedFrom(_, _)
SeedFrom(i, k) ==
    IF i > NumVoronoi THEN << >> ELSE << VoronoiPoint(i, k) >> \o SeedFrom(i + 1, k)

VoronoiSeed(k) == SeedFrom(1, k)

initVoronoi == { VoronoiSeed(k) : k \in 1 .. NumSeeds }

AllDead == { }

\* a crowded patch in the first corner, a line along the last row
CellularSeed(k) ==
    { c \in CellIndex :
        \/ c[1] <= k + 2 /\ c[2] <= k + 1
           /\ ((c[1] * 7 + c[2] * 13 + c[1] * c[2] + k) % 5) < 3
        \/ c[1] >= CellCols - 3 /\ c[2] = CellRows - 1 }

initCellular == { CellularSeed(k) : k \in 1 .. NumSeeds }

\* ------------------------------------------- colour animation and palettes
\* rich: COLOR_PALETTES (two of its eight entries); '#rrggbb' is kept as its
\* six hexadecimal digits
COLOR_PALETTES ==
    [ cyberpunk |-> << << 15, 15, 0, 0, 6, 14 >>, << 8, 3, 3, 8, 14, 12 >>,
                       << 3, 10, 8, 6, 15, 15 >>, << 0, 6, 15, 15, 10, 5 >>,
                       << 15, 15, 11, 14, 0, 11 >> >>,
      monochrome |-> << << 15, 15, 15, 15, 15, 15 >>, << 12, 12, 12, 12, 12, 12 >>,
                        << 9, 9, 9, 9, 9, 9 >>, << 6, 6, 6, 6, 6, 6 >>,
                        << 3, 3, 3, 3, 3, 3 >>, << 0, 0, 0, 0, 0, 0 >> >> ]

\* hexToHsl(hex); h, s and l are kept as fractions of 360, 100 and 100
hexToHsl(hex) ==
    LET r == ((hex[1] * 16 + hex[2]) * Unit) \div 255
        g == ((hex[3] * 16 + hex[4]) * Unit) \div 255
        b == ((hex[5] * 16 + hex[6]) * Unit) \div 255
        max == Max2(r, Max2(g, b))
        min == Min2(r, Min2(g, b))
        l == (max + min) \div 2
        d == max - min
        h6 == IF max = r THEN ((g - b) * Unit) \div d + (IF g < b THEN 6 * Unit ELSE 0)
              ELSE IF max = g THEN ((b - r) * Unit) \div d + 2 * Unit
              ELSE ((r - g) * Unit) \div d + 4 * Unit
    IN  IF max = min THEN [ h |-> 0, s |-> 0, l |-> l ]
        ELSE [ h |-> h6 \div 6,
               s |-> IF l > Half THEN (d * Unit) \div (2 * Unit - max - min)
                     ELSE (d * Unit) \div (max + min),
               l |-> l ]

\* hslToHex's hue2rgb(p, q, t)
hue2rgb(p, q, t) ==
    LET u == IF t < 0 THEN t + Unit ELSE IF t > Unit THEN t - Unit ELSE t
    IN  IF u < Unit \div 6 THEN p + ((q - p) * 6 * u) \div Unit
        ELSE IF u < Half THEN q
        ELSE IF u < (2 * Unit) \div 3
             THEN p + ((q - p) * ((2 * Unit) \div 3 - u) * 6) \div Unit
        ELSE p

\* hslToHex's toHex(c): Math.round(c * 255) as two hexadecimal digits
toHex(c) ==
    LET n == (c * 255 + Half) \div Unit
    IN  << n \div 16, n % 16 >>

\* hslToHex(hsl)
hslToHex(hsl) ==
    LET q == IF hsl.l < Half THEN Mul(hsl.l, Unit + hsl.s)
             ELSE hsl.l + hsl.s - Mul(hsl.l, hsl.s)
        p == 2 * hsl.l - q
        r == IF hsl.s = 0 THEN hsl.l ELSE hue2rgb(p, q, hsl.h + Unit \div 3)
        g == IF hsl.s = 0 THEN hsl.l ELSE hue2rgb(p, q, hsl.h)
        b == IF hsl.s = 0 THEN hsl.l ELSE hue2rgb(p, q, hsl.h - Unit \div 3)
    IN  toHex(r) \o toHex(g) \o toHex(b)

\* shiftHue(color, amount): hsl.h = (hsl.h + amount * 360) % 360
shiftHue(color, amount) ==
    LET hsl == hexToHsl(color)
    IN  hslToHex([ hsl EXCEPT !.h = (hsl.h + amount) % Unit ])

\* shiftSaturation(color, amount)
shiftSaturation(color, amount) ==
    LET hsl == hexToHsl(color)
    IN  hslToHex([ hsl EXCEPT !.s = Constrain(hsl.s + Sin(amount) \div 2, 0, Unit) ])

\* shiftBrightness(color, amount)
shiftBrightness(color, amount) ==
    LET hsl == hexToHsl(color)
    IN  hslToHex([ hsl EXCEPT !.l = Constrain(hsl.l + (Sin(amount) * 3) \div 10, 0, Unit) ])

\* rainbowColor(amount)
rainbowColor(amount) == hslToHex([ h |-> amount % Unit, s |-> Unit, l |-> Half ])

\* settings.colors after setup(), without the background colour, which has
\* its own place in this model; locks is the set of the settings whose flag in
\* settings.colors.locks is true; blendMode and blendAmount are the copies the
\* rich build keeps of settings.blendSettings
DefaultColors ==
    [ pattern1Color |-> << 15, 15, 15, 15, 15, 15 >>,
      pattern2Color |-> << 0, 0, 15, 15, 0, 0 >>,
      animationEnabled |-> FALSE, animationSpeed |-> 10, animationType |-> "hue",
      animationTime |-> 0,
      usePalette |-> FALSE, paletteColors |-> COLOR_PALETTES.cyberpunk,
      paletteIndex |-> 0, paletteColorMode |-> "single", randomColorTimer |-> 0,
      locks |-> { }, blendMode |-> "multiply", blendAmount |-> Half ]

\* settings.pattern1.color = c, and settings.pattern2.color = c2 if the
\* secondary pattern is enabled
WithColor(S, c, c2) ==
    [ S EXCEPT !.pattern1.color = c,
               !.pattern2.color = IF S.pattern2.enabled THEN c2 ELSE @ ]

\* updateColorsFromAnimation() on settings S, settings.colors C
updateColorsFromAnimation(S, C) ==
    IF ~C.animationEnabled \/ C.usePalette THEN [ settings |-> S, colors |-> C ]
    ELSE LET animationTime == C.animationTime + Mul(FrameDelta, speedMultiplier)
             speed == C.animationSpeed
             baseColor == C.pattern1Color
             animatedColor ==
                 CASE C.animationType = "hue" ->
                          shiftHue(baseColor, (animationTime * speed * 3) \div Unit)
                   [] C.animationType = "saturation" ->
                          shiftSaturation(baseColor, Mul(animationTime, speed))
                   [] C.animationType = "brightness" ->
                          shiftBrightness(baseColor, Mul(animationTime, speed))
                   [] C.animationType = "rainbow" ->
                          rainbowColor(Mul(animationTime, speed))
                   [] OTHER -> baseColor
         IN  [ settings |-> WithColor(S, animatedColor, animatedColor),
               colors |-> [ C EXCEPT !.animationTime = animationTime ] ]

\* settings.colors.pattern1Color = c, and pattern2Color = c2 if the secondary
\* pattern is enabled, each with its settings.patternN.color
PaletteColor(S, C, c, c2) ==
    [ settings |-> WithColor(S, c, c2),
      colors |-> [ C EXCEPT !.pattern1Color = c,
                            !.pattern2Color = IF S.pattern2.enabled THEN c2 ELSE @ ] ]

\* updateColorsFromPalette() on S, C: the set of its outcomes, one for each
\* result of Math.random()
updateColorsFromPalette(S, C) ==
    LET palette == C.paletteColors
        n == Len(palette)
        cycleIndex == (Mul(C.animationTime, C.animationSpeed) \div Unit) % n
        timer == C.randomColorTimer + Mul(FrameDelta, speedMultiplier)
    IN  IF ~C.usePalette \/ n = 0 THEN { [ settings |-> S, colors |-> C ] }
        ELSE CASE C.paletteColorMode = "single" ->
                      { PaletteColor(S, C, palette[(C.paletteIndex % n) + 1],
                                     palette[(C.paletteIndex % n) + 1]) }
               [] C.paletteColorMode = "cycle" ->
                      { PaletteColor(S, C, palette[cycleIndex + 1],
                                     palette[((cycleIndex + n \div 2) % n) + 1]) }
               [] C.paletteColorMode = "random" ->
                      IF timer >= 2 * Unit
                      THEN { PaletteColor(S, [ C EXCEPT !.randomColorTimer = 0 ],
                                          palette[i], palette[j])
                             : i \in 1 .. n, j \in 1 .. n }
                      ELSE { [ settings |-> S,
                               colors |-> [ C EXCEPT !.randomColorTimer = timer ] ] }
               [] OTHER -> { [ settings |-> S, colors |-> C ] }

\* draw()'s updateColorsFromAnimation(); updateColorsFromPalette(); the
\* scripts build has neither
UpdateColors(S, C) ==
    IF build = "rich"
    THEN UNION { updateColorsFromPalette(a.settings, a.colors)
                 : a \in { updateColorsFromAnimation(S, C) } }
    ELSE { [ settings |-> S, colors |-> C ] }

\* ------------------------------------------------------------------- Init
DefaultSettings ==
    [ pattern1 |-> [ type |-> "waves", speed |-> 10, scale |-> 50,
                     noiseVariant |-> "simplex",
                     color |-> << 15, 15, 15, 15, 15, 15 >> ],
      pattern2 |-> [ enabled |-> FALSE, type |-> "ripples", speed |-> 20,
                     scale |-> 80, noiseVariant |-> "simplex",
                     color |-> << 0, 0, 15, 15, 0, 0 >> ],
      blendSettings |-> [ mode |-> "multiply", amount |-> Half ],
      interactive |-> [ enabled |-> FALSE, type |-> "ripple", strength |-> Unit,
                        radius |-> Unit \div 5, clickEnabled |-> TRUE ] ]

\* The webcam globals after setup(); a stream or an interval is a positive
\* number and null is 0.  live holds the streams whose tracks run, intervals
\* the setInterval timers not cleared, starts the startWebcam calls that have
\* not returned, each with the await it is at.
NoWebcam ==
    [ webcamMode |-> FALSE, isWebcamActive |-> FALSE, webcamStream |-> 0,
      webcamInterval |-> 0, srcObject |-> 0, onloadedmetadata |-> 0, live |-> { },
      intervals |-> { }, starts |-> { }, created |-> 0 ]

\* createCanvas(800, 500), then updateCanvasSize(): a small grid gets the
\* minimum size.  canvas is the identity of the canvas element, 0 the page's.
MainCanvas == [ canvas |-> 0, width |-> 400, height |-> 300 ]

\* The state setup() leaves, for either build, with the grid sliders at a small
\* grid.
SetupState ==
    /\ time = 0
    /\ frameCount = 0
    /\ lastFrameTime = 0
    /\ isPaused = FALSE
    /\ looping = TRUE
    /\ speedMultiplier = Unit
    /\ targetFPS = 60
    /\ gridCols = MaxCols
    /\ gridRows = MaxRows
    /\ backgroundColor = "#000000"
    /\ currentRamp1 = ASCII_RAMPS.blocks
    /\ currentRamp2 = ASCII_RAMPS.blocks
    /\ charSet = [ p1 |-> "blocks", p2 |-> "blocks" ]
    /\ customChars = [ p1 |-> << >>, p2 |-> << >> ]
    /\ hidden = FALSE
    /\ webcam = NoWebcam
    /\ isSaving = FALSE
    /\ timers = << >>
    /\ now = 0
    /\ canvas = MainCanvas
    /\ exported = [ accepted |-> 0, calls |-> 0, thrown |-> 0, recordings |-> 0 ]
    /\ mousePos = [ x |-> Half, y |-> Half ]
    /\ clickEffects = << >>
    /\ screen = NoGlyphs
    /\ textContent = << >>
    /\ frameUpdates = 0
    /\ frameSnapshot = [ time |-> -1 ]
    /\ nextId = 0
    /\ decrements = << >>
    /\ lastOp = "setup"
    /\ ops = 0

\* no function has been called on its own
NoCall == [ name |-> "none" ]

Init ==
    /\ build \in { "scripts", "rich" }
    /\ cellularGrid \in (IF build = "scripts" THEN initCellular ELSE { AllDead })
    /\ voronoiPoints \in initVoronoi
    /\ SetupState
    /\ colors = DefaultColors
    /\ settings = DefaultSettings
    /\ call = NoCall

loopVars == << time, frameCount, lastFrameTime >>
pauseVars == << isPaused, looping >>
gridVars == << gridCols, gridRows >>
cfgVars == << speedMultiplier, targetFPS, settings, backgroundColor, currentRamp1,
              currentRamp2 >>
fxVars == << clickEffects, nextId, decrements >>
simVars == << cellularGrid, voronoiPoints >>
outVars == << screen, textContent, frameUpdates, frameSnapshot >>
\* the page's controls and document, which the render loop does not write
saveVars == << isSaving, timers, now, canvas, exported >>
pageVars == << charSet, customChars, hidden, webcam, saveVars >>
vars == << build, call, pageVars, colors, loopVars, pauseVars, gridVars, cfgVars, mousePos, fxVars, simVars,
           outVars, lastOp, ops >>


\* what a frame or an export is computed from, besides the two simulations
Snapshot(t, effects) ==
    [ gridCols |-> gridCols, gridRows |-> gridRows, time |-> t, settings |-> settings,
      currentRamp1 |-> currentRamp1, currentRamp2 |-> currentRamp2,
      mousePos |-> mousePos, clickEffects |-> effects ]

\* ---------------------------------------------------------------- draw()
\* whether updateInteractiveEffects ages the effects in this build and state
Decaying == ~(build = "rich" /\ ~settings.interactive.enabled)

EffectIds(effects) == { effects[i].id : i \in DOMAIN effects }

\* rich: the frame limiter's early return
TooSoon(currentTime) ==
    build = "rich" /\ (currentTime - lastFrameTime) * targetFPS < 1000

\* rich: draw() returns at once while the webcam display is shown
WebcamShown == build = "rich" /\ webcam.webcamMode /\ webcam.isWebcamActive

\* draw(), invoked with Date.now() = currentTime: skipped while the webcam is
\* shown and by the frame limiter, or one whole frame (time, colours, click
\* effects, then every cell in column order).
Draw(currentTime, op) ==
    IF WebcamShown \/ TooSoon(currentTime)
    THEN /\ lastOp' = "skip"
         /\ UNCHANGED << settings, colors, loopVars, fxVars, simVars, outVars >>
    ELSE \E t \in { time + Mul(FrameDelta, speedMultiplier) },
            effects \in { updateInteractiveEffects(clickEffects) },
            order \in { ColumnMajor }, w0 \in { World },
            cu \in UpdateColors(settings, colors) :
         \E pass \in { RenderPass(order, 1, t, effects, w0, NoGlyphs) } :
             /\ time' = t
             /\ settings' = cu.settings
             /\ colors' = cu.colors
             /\ frameCount' = frameCount + 1
             /\ lastFrameTime' = IF build = "rich" THEN currentTime ELSE lastFrameTime
             /\ clickEffects' = effects
             /\ decrements' = [ id \in DOMAIN decrements |->
                                  IF Decaying /\ id \in EffectIds(clickEffects)
                                  THEN decrements[id] + 1 ELSE decrements[id] ]
             /\ nextId' = nextId
             /\ voronoiPoints' = pass.w.voronoiPoints
             /\ cellularGrid' = pass.w.cellularGrid
             /\ screen' = pass.glyphs
             /\ frameUpdates' = pass.w.updates
             /\ frameSnapshot' = [ Snapshot(t, effects) EXCEPT !.settings = cu.settings ]
             /\ textContent' = textContent
             /\ lastOp' = op

\* the values Date.now() can have at the next invocation of draw()
Clock ==
    IF lastFrameTime = 0 THEN { StartMs }
    ELSE { lastFrameTime + ShortGapMs, lastFrameTime + LongGapMs }

\* p5 invokes draw() once per animation frame while the loop runs
Frame ==
    /\ looping
    /\ \E currentTime \in Clock : Draw(currentTime, "draw")
    /\ UNCHANGED << build, pageVars, call, pauseVars, gridVars, speedMultiplier, targetFPS,
                    backgroundColor, currentRamp1, currentRamp2, mousePos, ops >>

DrawFrame == frameCount < MaxFrames /\ Frame

\* ------------------------------------------------------------ UI handlers
Op(name) == ops < MaxOps /\ lastOp' = name /\ ops' = ops + 1

\* setupPlayPauseButton's click handler
PlayPauseClick ==
    /\ isPaused' = ~isPaused
    /\ looping' = ~isPaused'
    /\ Op("playPause")
    /\ UNCHANGED << build, pageVars, colors, call, loopVars, gridVars, cfgVars, mousePos, fxVars, simVars,
                    outVars >>

\* setupSpeedButton's option handler: applySpeedMultiplier(speed)
SetSpeedMultiplier ==
    /\ \E m \in SpeedMultipliers : speedMultiplier' = m
    /\ Op("speed")
    /\ UNCHANGED << build, pageVars, colors, call, loopVars, pauseVars, gridVars, targetFPS, settings,
                    backgroundColor, currentRamp1, currentRamp2, mousePos, fxVars,
                    simVars, outVars >>

\* the gridCols and gridRows slider handlers
SetGridCols ==
    /\ \E c \in 1 .. MaxCols : gridCols' = c
    /\ Op("gridCols")
    /\ UNCHANGED << build, pageVars, colors, call, loopVars, pauseVars, gridRows, cfgVars, mousePos, fxVars,
                    simVars, outVars >>

SetGridRows ==
    /\ \E r \in 1 .. MaxRows : gridRows' = r
    /\ Op("gridRows")
    /\ UNCHANGED << build, pageVars, colors, call, loopVars, pauseVars, gridCols, cfgVars, mousePos, fxVars,
                    simVars, outVars >>

\* a handler that only assigns settings
SetSettings(new, name) ==
    /\ settings' = new
    /\ Op(name)
    /\ UNCHANGED << build, pageVars, colors, call, loopVars, pauseVars, gridVars, speedMultiplier, targetFPS,
                    backgroundColor, currentRamp1, currentRamp2, mousePos, fxVars,
                    simVars, outVars >>

\* the pattern types the type dropdowns offer (PATTERN_TYPES)
OfferedTypes == IF build = "scripts" THEN PatternTypes ELSE PatternTypes \ { "cellular" }

\* the pattern1Type handler: re-seeds the simulation the new kind uses
SetPattern1Type ==
    \E k \in OfferedTypes :
        /\ settings' = [ settings EXCEPT !.pattern1.type = k ]
        /\ IF k = "cellular" /\ build = "scripts"
           THEN cellularGrid' \in initCellular /\ voronoiPoints' = voronoiPoints
           ELSE IF k = "voronoi"
           THEN voronoiPoints' \in initVoronoi /\ cellularGrid' = cellularGrid
           ELSE UNCHANGED simVars
        /\ Op("pattern1Type")
        /\ UNCHANGED << build, pageVars, colors, call, loopVars, pauseVars, gridVars, speedMultiplier,
                        targetFPS, backgroundColor, currentRamp1, currentRamp2,
                        mousePos, fxVars, outVars >>

\* the pattern2Type handler
SetPattern2Type ==
    \E k \in OfferedTypes :
        SetSettings([ settings EXCEPT !.pattern2.type = k ], "pattern2Type")

\* the pattern2Toggle handler
TogglePattern2 ==
    SetSettings([ settings EXCEPT !.pattern2.enabled = ~@ ], "pattern2Toggle")

\* the pattern speed and scale sliders, and the noise variant selects (rich)
SetPatternParams ==
    \/ \E v \in SpeedValues :
          SetSettings([ settings EXCEPT !.pattern1.speed = v ], "pattern1Speed")
    \/ \E v \in SpeedValues :
          SetSettings([ settings EXCEPT !.pattern2.speed = v ], "pattern2Speed")
    \/ \E v \in ScaleValues :
          SetSettings([ settings EXCEPT !.pattern1.scale = v ], "pattern1Scale")
    \/ \E v \in ScaleValues :
          SetSettings([ settings EXCEPT !.pattern2.scale = v ], "pattern2Scale")
    \/ /\ build = "rich"
       /\ \E v \in NoiseVariants :
             SetSettings([ settings EXCEPT !.pattern1.noiseVariant = v ],
                         "pattern1NoiseVariant")
    \/ /\ build = "rich"
       /\ \E v \in NoiseVariants :
             SetSettings([ settings EXCEPT !.pattern2.noiseVariant = v ],
                         "pattern2NoiseVariant")

\* the blend mode select and the blend amount slider
SetBlend ==
    /\ \/ \E m \in BlendModes :
             /\ settings' = [ settings EXCEPT !.blendSettings.mode = m ]
             /\ colors' = IF build = "rich" THEN [ colors EXCEPT !.blendMode = m ]
                          ELSE colors
             /\ Op("blendMode")
       \/ \E a \in AmountValues :
             /\ settings' = [ settings EXCEPT !.blendSettings.amount = a ]
             /\ colors' = IF build = "rich" THEN [ colors EXCEPT !.blendAmount = a ]
                          ELSE colors
             /\ Op("blendAmount")
    /\ UNCHANGED << build, pageVars, call, loopVars, pauseVars, gridVars,
                    speedMultiplier, targetFPS, backgroundColor, currentRamp1,
                    currentRamp2, mousePos, fxVars, simVars, outVars >>

\* the interactive toggle, type, strength, radius and click checkbox handlers
ToggleInteractive ==
    SetSettings([ settings EXCEPT !.interactive.enabled = ~@ ], "interactiveToggle")

SetInteractive ==
    \/ ToggleInteractive
    \/ \E k \in InteractiveTypes :
          SetSettings([ settings EXCEPT !.interactive.type = k ], "interactiveType")
    \/ \E v \in { Half, Unit } :
          SetSettings([ settings EXCEPT !.interactive.strength = v ],
                      "interactiveStrength")
    \/ \E v \in RadiusValues :
          SetSettings([ settings EXCEPT !.interactive.radius = v ], "interactiveRadius")
    \/ SetSettings([ settings EXCEPT !.interactive.clickEnabled = ~@ ],
                   "interactiveClick")

\* mouseMoved(): nx, ny are the pointer's grid-relative normalized coordinates
mouseMoved ==
    /\ \E p \in PointerValues :
          mousePos' = IF settings.interactive.enabled
                      THEN [ x |-> Constrain(p[1], 0, Unit),
                             y |-> Constrain(p[2], 0, Unit) ]
                      ELSE mousePos
    /\ Op("mouseMoved")
    /\ UNCHANGED << build, pageVars, colors, call, loopVars, pauseVars, gridVars, cfgVars, fxVars, simVars,
                    outVars >>

\* the effect mousePressed() pushes
NewClickEffect(normalizedX, normalizedY) ==
    [ x |-> normalizedX, y |-> normalizedY, life |-> ClickLife, maxLife |-> ClickLife,
      strength |-> settings.interactive.strength,
      radius |-> settings.interactive.radius, id |-> nextId + 1 ]

\* "Only add click effects if within grid bounds"; the early variant pushes
\* mouseX / width, mouseY / height without a test
WithinBounds(p) ==
    \/ build = "early"
    \/ /\ p[1] >= 0 /\ p[1] <= Unit
       /\ p[2] >= 0 /\ p[2] <= Unit

\* mousePressed() with the pointer at p
PressAt(p) ==
    /\ nextId < MaxClicks
    /\ IF /\ settings.interactive.enabled /\ settings.interactive.clickEnabled
          /\ WithinBounds(p)
       THEN /\ clickEffects' = Append(clickEffects, NewClickEffect(p[1], p[2]))
            /\ nextId' = nextId + 1
            /\ decrements' = Append(decrements, 0)
       ELSE UNCHANGED fxVars
    /\ Op("mousePressed")
    /\ UNCHANGED << build, pageVars, colors, call, loopVars, pauseVars, gridVars, cfgVars, mousePos, simVars,
                    outVars >>

\* mousePressed()
mousePressed == \E p \in PointerValues : PressAt(p)

\* rich: the backgroundColor input handler; updateBackgroundColor() ends in
\* redraw(), which runs draw() once, whether or not the loop is running
SetBackgroundColor ==
    /\ build = "rich"
    /\ \E c \in Colors : backgroundColor' = c
    /\ ops < MaxOps
    /\ \E currentTime \in Clock : Draw(currentTime, "backgroundColor")
    /\ ops' = ops + 1
    /\ UNCHANGED << build, pageVars, call, pauseVars, gridVars, speedMultiplier, targetFPS,
                    currentRamp1, currentRamp2, mousePos >>

\* ---------------------------------------------------------------- exports
\* exportTextFile(): every cell in row order at the current time
exportTextFile ==
    \E order \in { RowMajor }, w0 \in { World } :
    \E pass \in { RenderPass(order, 1, time, clickEffects, w0, NoGlyphs) } :
        /\ textContent' = [ y \in 1 .. gridRows |->
                              [ x \in 1 .. gridCols |-> pass.glyphs[<< x - 1, y - 1 >>] ] ]
        /\ voronoiPoints' = pass.w.voronoiPoints
        /\ cellularGrid' = pass.w.cellularGrid
        /\ Op("exportText")
        /\ UNCHANGED << build, pageVars, colors, call, loopVars, pauseVars, gridVars, cfgVars, mousePos, fxVars,
                        screen, frameUpdates, frameSnapshot >>

\* exportHighResCanvas(): every cell in column order on an off-screen canvas
exportHighResCanvas ==
    \E order \in { ColumnMajor }, w0 \in { World } :
    \E pass \in { RenderPass(order, 1, time, clickEffects, w0, NoGlyphs) } :
        /\ voronoiPoints' = pass.w.voronoiPoints
        /\ cellularGrid' = pass.w.cellularGrid
        /\ Op("exportHighRes")
        /\ UNCHANGED << build, pageVars, colors, call, loopVars, pauseVars, gridVars, cfgVars, mousePos, fxVars,
                        outVars >>

\* ------------------------------------------------------------------- Spec
Next ==
    \/ DrawFrame
    \/ PlayPauseClick
    \/ SetSpeedMultiplier
    \/ SetGridCols
    \/ SetGridRows
    \/ SetPattern1Type
    \/ SetPattern2Type
    \/ TogglePattern2
    \/ SetPatternParams
    \/ SetBlend
    \/ SetInteractive
    \/ mouseMoved
    \/ mousePressed
    \/ SetBackgroundColor
    \/ exportTextFile
    \/ exportHighResCanvas

Spec == Init /\ [][Next]_vars

\* ------------------------------------------------ updateCellular on its own
\* the grids updateCellular is run from: initCellular's, and the empty one
CellularInputs == initCellular \cup { AllDead }

InitCellular ==
    /\ build = "scripts"
    /\ cellularGrid \in CellularInputs
    /\ voronoiPoints = VoronoiSeed(1)
    /\ SetupState
    /\ colors = DefaultColors
    /\ settings = DefaultSettings
    /\ call = NoCall

CallUpdateCellular ==
    /\ ops < MaxGenerations
    /\ cellularGrid' = updateCellular(cellularGrid)
    /\ call' = [ name |-> "updateCellular", before |-> cellularGrid,
                 after |-> cellularGrid' ]
    /\ ops' = ops + 1
    /\ UNCHANGED << build, pageVars, colors, loopVars, pauseVars, gridVars, cfgVars, mousePos, fxVars,
                    voronoiPoints, outVars, lastOp >>

SpecCellular == InitCellular /\ [][CallUpdateCellular]_vars

\* ----------------------------------------------- getVoronoiValue on its own
\* the places getVoronoiValue is asked about
QueryPoints == { << 0, 0 >>, << Half, Half >> }

InitVoronoiCalls ==
    /\ build \in { "scripts", "rich" }
    /\ cellularGrid = AllDead
    /\ voronoiPoints \in initVoronoi
    /\ SetupState
    /\ colors = DefaultColors
    /\ settings = DefaultSettings
    /\ call = NoCall

CallGetVoronoiValue ==
    /\ ops < MaxVoronoiCalls
    /\ \E q \in QueryPoints :
       \E r \in { getVoronoiValue(voronoiPoints, q[1], q[2], time,
                                  settings.pattern1.speed) } :
          /\ voronoiPoints' = r.voronoiPoints
          /\ call' = [ name |-> "getVoronoiValue", value |-> r.value ]
    /\ ops' = ops + 1
    /\ UNCHANGED << build, pageVars, colors, loopVars, pauseVars, gridVars, cfgVars, mousePos, fxVars,
                    cellularGrid, outVars, lastOp >>

SpecVoronoi == InitVoronoiCalls /\ [][CallGetVoronoiValue]_vars

\* ------------------------------------------------------ a click's lifetime
\* the interaction is on, clicks are made at (0.5, 0.5) during the first
\* frames and the interaction may be switched at the end of them; the loop then
\* runs long enough for the effects to expire
InitClick ==
    /\ build \in { "scripts", "rich" }
    /\ cellularGrid = AllDead
    /\ voronoiPoints = VoronoiSeed(1)
    /\ SetupState
    /\ colors = DefaultColors
    /\ settings = [ DefaultSettings EXCEPT !.interactive.enabled = TRUE ]
    /\ call = NoCall

EarlyToggle == frameCount = MaxFrames /\ ToggleInteractive

EarlyClick == frameCount <= MaxFrames /\ PressAt(<< Half, Half >>)

LongFrame == frameCount < ClickFrames + MaxFrames /\ Frame

NextClick == EarlyToggle \/ EarlyClick \/ LongFrame

SpecClick == InitClick /\ [][NextClick]_vars

\* --------------------------------------------------- blendValues on its own
UnitGrid == { (i * Unit) \div BlendSteps : i \in 0 .. BlendSteps }

CallBlendValues ==
    /\ ops = 0
    /\ \E value1 \in UnitGrid, value2 \in UnitGrid, amount \in UnitGrid,
          mode \in BlendModes \cup { "normal" } :
          call' = [ name |-> "blendValues", value1 |-> value1, value2 |-> value2,
                    mode |-> mode, amount |-> amount,
                    result |-> blendValues(value1, value2, mode, amount) ]
    /\ ops' = ops + 1
    /\ UNCHANGED << build, pageVars, colors, loopVars, pauseVars, gridVars, cfgVars, mousePos, fxVars,
                    simVars, outVars, lastOp >>

SpecBlend == Init /\ [][CallBlendValues]_vars

\* --------------------------------------------------- blendColors on its own
\* "#000000", "#ffffff", "#00ff00", "#6480c8" and a string that is no colour
HexColors == { << 0, 0, 0, 0, 0, 0 >>, << 15, 15, 15, 15, 15, 15 >>,
               << 0, 0, 15, 15, 0, 0 >>, << 6, 4, 8, 0, 12, 8 >>, << 15, 15 >> }

CallBlendColors ==
    /\ ops = 0
    /\ \E color1Hex \in HexColors, color2Hex \in HexColors,
          value1 \in UnitGrid, value2 \in UnitGrid, amount \in { 0, Half, Unit },
          mode \in BlendModes \cup { "normal" } :
          call' = [ name |-> "blendColors", color1 |-> color1Hex,
                    color2 |-> color2Hex, mode |-> mode, value1 |-> value1,
                    value2 |-> value2, amount |-> amount,
                    result |-> blendColors(color1Hex, color2Hex, mode,
                                           value1, value2, amount) ]
    /\ ops' = ops + 1
    /\ UNCHANGED << build, pageVars, colors, loopVars, pauseVars, gridVars, cfgVars, mousePos, fxVars,
                    simVars, outVars, lastOp >>

SpecColor == Init /\ [][CallBlendColors]_vars

\* ------------------------------------------------- the glyph mapper on its own
\* values below 0, inside [0,1] and above 1, in steps of 1/GlyphSteps
GlyphValues == { (i * Unit) \div GlyphSteps : i \in -GlyphSteps .. 2 * GlyphSteps }

\* the two built-in ramps and every non-empty prefix of the ascii ramp up to
\* MaxRampLen characters
GlyphRamps ==
    { ASCII_RAMPS.blocks, ASCII_RAMPS.ascii }
        \cup { SubSeq(ASCII_RAMPS.ascii, 1, n)
               : n \in 1 .. Min2(MaxRampLen, Len(ASCII_RAMPS.ascii)) }

CallMapToChar ==
    /\ ops = 0
    /\ \E finalValue \in GlyphValues, selectedRamp \in GlyphRamps :
          call' = [ name |-> "MapToChar", value |-> finalValue,
                    ramp |-> selectedRamp,
                    charIndex |-> CharIndex(finalValue, selectedRamp),
                    char |-> MapToChar(finalValue, selectedRamp) ]
    /\ ops' = ops + 1
    /\ UNCHANGED << build, pageVars, colors, loopVars, pauseVars, gridVars, cfgVars, mousePos, fxVars,
                    simVars, outVars, lastOp >>

SpecGlyph == Init /\ [][CallMapToChar]_vars

\* ------------------------------------------------------ character-set controls
\* the options of the character-set select of a slot ("p1" or "p2")
CustomOption(slot) == IF slot = "p1" THEN "custom1" ELSE "custom2"
CharSetOptions(slot) == DOMAIN ASCII_RAMPS \cup { CustomOption(slot) }

\* texts typed into a custom-characters input, the cleared input among them
CustomTexts == { << >>, << "#" >>, << " ", "o", "O" >> }

\* value || " .:-=+*#%@"
OrDefaultRamp(text) ==
    IF text = << >> THEN << " ", ".", ":", "-", "=", "+", "*", "#", "%", "@" >>
    ELSE text

SetRamp(slot, ramp) ==
    /\ currentRamp1' = IF slot = "p1" THEN ramp ELSE currentRamp1
    /\ currentRamp2' = IF slot = "p2" THEN ramp ELSE currentRamp2

\* the 'change' handler of pattern1CharSet / pattern2CharSet
SelectCharSet(slot) ==
    \E selectedSet \in CharSetOptions(slot) :
        /\ charSet' = [ charSet EXCEPT ![slot] = selectedSet ]
        /\ SetRamp(slot, IF selectedSet = CustomOption(slot)
                         THEN OrDefaultRamp(customChars[slot])
                         ELSE ASCII_RAMPS[selectedSet])
        /\ Op("charSet")
        /\ UNCHANGED << build, saveVars, call, customChars, hidden, colors, webcam, loopVars, pauseVars, gridVars,
                        speedMultiplier, targetFPS, settings, backgroundColor,
                        mousePos, fxVars, simVars, outVars >>

\* the 'input' handler of pattern1CustomChars / pattern2CustomChars
InputCustomChars(slot) ==
    \E text \in CustomTexts :
        /\ customChars' = [ customChars EXCEPT ![slot] = text ]
        /\ IF charSet[slot] = CustomOption(slot)
           THEN SetRamp(slot, OrDefaultRamp(text))
           ELSE UNCHANGED << currentRamp1, currentRamp2 >>
        /\ Op("customChars")
        /\ UNCHANGED << build, saveVars, call, charSet, hidden, colors, webcam, loopVars, pauseVars, gridVars,
                        speedMultiplier, targetFPS, settings, backgroundColor,
                        mousePos, fxVars, simVars, outVars >>

pattern1CharSet == SelectCharSet("p1")
pattern2CharSet == SelectCharSet("p2")
pattern1CustomChars == InputCustomChars("p1")
pattern2CustomChars == InputCustomChars("p2")

\* ------------------------------------------------- one cell's ramp and colour
\* The loop body composes one cell from given pattern values, some of them
\* outside [0,1], after the secondary character set may have been changed.
CellValues == UnitGrid \cup { -(Unit \div 4), Unit + Unit \div 4 }

CellSettings ==
    { [ DefaultSettings EXCEPT !.pattern2.enabled = e, !.blendSettings.amount = a,
                               !.interactive.enabled = i ]
      : e \in BOOLEAN, a \in AmountValues, i \in BOOLEAN }

InitCell ==
    /\ build \in { "scripts", "rich" }
    /\ cellularGrid = AllDead
    /\ voronoiPoints = VoronoiSeed(1)
    /\ SetupState
    /\ colors = DefaultColors
    /\ settings \in CellSettings
    /\ call = NoCall

CallComposeCell ==
    /\ call = NoCall
    /\ \E value1 \in CellValues, value2 \in CellValues :
          \E c \in { ComposeCell(0, 0, time, clickEffects,
                                 [ value |-> value1, w |-> World ],
                                 [ value |-> value2, w |-> World ]) } :
              call' = [ name |-> "ComposeCell", value1 |-> value1,
                        value2 |-> value2, useRamp1 |-> c.useRamp1,
                        ramp |-> c.ramp, blended |-> c.blended,
                        finalValue |-> c.finalValue,
                        char |-> c.char, color |-> CellColor(value1, value2) ]
    /\ lastOp' = "cell"
    /\ UNCHANGED << build, pageVars, colors, loopVars, pauseVars, gridVars, cfgVars, mousePos,
                    fxVars, simVars, outVars, ops >>

\* the secondary character set is chosen before the cell is composed
EarlyCharSet == call = NoCall /\ pattern2CharSet

NextCell == EarlyCharSet \/ CallComposeCell

SpecCell == InitCell /\ [][NextCell]_vars

\* ------------------------------------------- applyInteractiveEffect on its own
\* The interaction is on or off and of any kind; clicks at (0.5, 0.5) and
\* frames come first, then the overlay is applied to one cell, or one cell is
\* composed.
EffectSettings ==
    { [ DefaultSettings EXCEPT !.interactive.enabled = e, !.interactive.type = k ]
      : e \in BOOLEAN, k \in InteractiveTypes }

InitEffect ==
    /\ build \in { "scripts", "rich" }
    /\ cellularGrid = AllDead
    /\ voronoiPoints = VoronoiSeed(1)
    /\ SetupState
    /\ colors = DefaultColors
    /\ settings \in EffectSettings
    /\ call = NoCall

\* every call site tests settings.interactive.enabled before the call
CallApplyInteractiveEffect ==
    /\ call = NoCall
    /\ settings.interactive.enabled
    /\ \E c \in Cells, baseValue \in CellValues :
          call' = [ name |-> "applyInteractiveEffect", x |-> c[1], y |-> c[2],
                    baseValue |-> baseValue,
                    result |-> applyInteractiveEffect(c[1], c[2], baseValue, time,
                                                      clickEffects) ]
    /\ lastOp' = "effect"
    /\ UNCHANGED << build, pageVars, colors, loopVars, pauseVars, gridVars, cfgVars, mousePos,
                    fxVars, simVars, outVars, ops >>

ClickBeforeCall == call = NoCall /\ EarlyClick

FrameBeforeCall == call = NoCall /\ DrawFrame

NextEffect ==
    ClickBeforeCall \/ FrameBeforeCall \/ CallApplyInteractiveEffect \/ CallComposeCell

SpecEffect == InitEffect /\ [][NextEffect]_vars

\* ------------------------------------------------------------ tab visibility
\* the document's visibilitychange listener, run when the tab is hidden or
\* shown again
visibilitychange ==
    /\ hidden' = ~hidden
    /\ looping' = IF isPaused THEN looping ELSE ~hidden'
    /\ lastOp' = "visibilitychange"
    /\ UNCHANGED << build, saveVars, call, charSet, customChars, colors, webcam, isPaused, loopVars, gridVars,
                    cfgVars, mousePos, fxVars, simVars, outVars, ops >>

NextVisibility == PlayPauseClick \/ visibilitychange \/ DrawFrame

SpecVisibility == Init /\ [][NextVisibility]_vars

\* ------------------------------------------------------ presses of the pointer
\* the three variants of mousePressed(), under every setting of the
\* interaction's switches, strength and radius
PressSettings ==
    { [ DefaultSettings EXCEPT !.interactive.enabled = e,
                               !.interactive.clickEnabled = c,
                               !.interactive.strength = s, !.interactive.radius = r ]
      : e \in BOOLEAN, c \in BOOLEAN, s \in { Half, Unit }, r \in RadiusValues }

InitPress ==
    /\ build \in { "scripts", "rich", "early" }
    /\ cellularGrid = AllDead
    /\ voronoiPoints = VoronoiSeed(1)
    /\ SetupState
    /\ colors = DefaultColors
    /\ settings \in PressSettings
    /\ call = NoCall

NextPress == mousePressed \/ SetInteractive

SpecPress == InitPress /\ [][NextPress]_vars

\* ------------------------------------------------------------ pattern codes
\* redraw() at the end of a handler: draw() run once on the configuration the
\* handler has just assigned, of which S and C are its settings and
\* settings.colors
Redraw(currentTime, op, S, C) ==
    IF WebcamShown \/ TooSoon(currentTime)
    THEN /\ lastOp' = "skip"
         /\ settings' = S
         /\ colors' = C
         /\ UNCHANGED << loopVars, fxVars, simVars, outVars >>
    ELSE \E t \in { time + Mul(FrameDelta, speedMultiplier) },
            old \in { clickEffects }, w0 \in { World }, cu \in UpdateColors(S, C) :
         /\ settings' = cu.settings
         /\ colors' = cu.colors
         /\ \E effects \in { updateInteractiveEffects(old)' } :
            \E pass \in { RenderPass(ColumnMajor, 1, t, effects, w0, NoGlyphs)' } :
             /\ time' = t
             /\ frameCount' = frameCount + 1
             /\ lastFrameTime' = currentTime
             /\ clickEffects' = effects
             /\ decrements' = [ id \in DOMAIN decrements |->
                                  IF settings'.interactive.enabled
                                     /\ id \in EffectIds(old)
                                  THEN decrements[id] + 1 ELSE decrements[id] ]
             /\ nextId' = nextId
             /\ voronoiPoints' = pass.w.voronoiPoints
             /\ cellularGrid' = pass.w.cellularGrid
             /\ screen' = pass.glyphs
             /\ frameUpdates' = pass.w.updates
             /\ frameSnapshot' = Snapshot(t, effects)'
             /\ textContent' = textContent
             /\ lastOp' = op

\* A code's charSet: a string or, as JSON.parse also yields, an array; an
\* absent one is written as the empty string, which is falsy as well
NoRamp == [ array |-> FALSE, items |-> << >> ]

\* if (charSet) currentRamp = charSet: every array is truthy
CodedRamp(coded, old) ==
    IF coded.array \/ coded.items # << >> THEN coded.items ELSE old

\* A decoded pattern code. An absent or zero number and an absent or empty
\* string are falsy and are written 0 and ""; a flag is "true", "false" or
\* "undefined".
NoCode ==
    [ grid |-> [ cols |-> 0, rows |-> 0 ],
      pattern1 |-> [ type |-> "", speed |-> 0, scale |-> 0, color |-> << >>,
                     noiseVariant |-> "", charSet |-> NoRamp ],
      pattern2 |-> [ enabled |-> "undefined", type |-> "", speed |-> 0, scale |-> 0,
                     color |-> << >>, noiseVariant |-> "", charSet |-> NoRamp ],
      interactive |-> [ enabled |-> "undefined", type |-> "", strength |-> 0,
                        radius |-> 0, clickEnabled |-> "undefined" ],
      colors |-> [ backgroundColor |-> "", blendMode |-> "", blendAmount |-> 0 ] ]

\* v || old, where falsy is the falsy value of v's type
Or(v, falsy, old) == IF v = falsy THEN old ELSE v

\* v !== undefined ? v : old
OrFlag(v, old) == IF v = "undefined" THEN old ELSE v = "true"

\* the settings applyPatternCode assigns
CodedSettings(codeSettings) ==
    [ pattern1 |->
          [ type |-> Or(codeSettings.pattern1.type, "", settings.pattern1.type),
            speed |-> Or(codeSettings.pattern1.speed, 0, settings.pattern1.speed),
            scale |-> Or(codeSettings.pattern1.scale, 0, settings.pattern1.scale),
            noiseVariant |-> Or(codeSettings.pattern1.noiseVariant, "",
                                settings.pattern1.noiseVariant),
            color |-> Or(codeSettings.pattern1.color, << >>, colors.pattern1Color) ],
      pattern2 |->
          [ enabled |-> OrFlag(codeSettings.pattern2.enabled, settings.pattern2.enabled),
            type |-> Or(codeSettings.pattern2.type, "", settings.pattern2.type),
            speed |-> Or(codeSettings.pattern2.speed, 0, settings.pattern2.speed),
            scale |-> Or(codeSettings.pattern2.scale, 0, settings.pattern2.scale),
            noiseVariant |-> Or(codeSettings.pattern2.noiseVariant, "",
                                settings.pattern2.noiseVariant),
            color |-> Or(codeSettings.pattern2.color, << >>, colors.pattern2Color) ],
      blendSettings |->
          [ mode |-> settings.blendSettings.mode,
            amount |-> Or(codeSettings.colors.blendAmount, 0,
                          settings.blendSettings.amount) ],
      interactive |->
          [ enabled |-> OrFlag(codeSettings.interactive.enabled,
                               settings.interactive.enabled),
            type |-> Or(codeSettings.interactive.type, "", settings.interactive.type),
            strength |-> Or(codeSettings.interactive.strength, 0,
                            settings.interactive.strength),
            radius |-> Or(codeSettings.interactive.radius, 0,
                          settings.interactive.radius),
            clickEnabled |-> OrFlag(codeSettings.interactive.clickEnabled,
                                    settings.interactive.clickEnabled) ] ]

\* settings.colors as applyPatternCode leaves it, S being the settings it
\* assigns: the base colours follow the code, and a palette in use is switched
\* off together with the colour animation; of the blend fields the mode is
\* stored here and the amount in settings.blendSettings
CodedColors(S, codeSettings) ==
    [ colors EXCEPT !.blendMode = Or(codeSettings.colors.blendMode, "", @),
                    !.pattern1Color = S.pattern1.color,
                    !.pattern2Color = S.pattern2.color,
                    !.usePalette = FALSE,
                    !.animationEnabled = IF colors.usePalette THEN FALSE ELSE @ ]

\* updateUIFromSettings: charSets.find(set => ASCII_RAMPS[set] === ramp) || 'blocks'
CharSetNames == << "blocks", "ascii", "hex", "numbers", "letters", "symbols", "braille" >>

CharSetOf(ramp) ==
    LET found == { i \in DOMAIN CharSetNames : ASCII_RAMPS[CharSetNames[i]] = ramp }
    IN  IF found = { } THEN "blocks"
        ELSE CharSetNames[CHOOSE i \in found : \A j \in found : i <= j]

\* rich: applyPatternCode(codeSettings), with updateUIFromSettings() and the
\* redraw() of updateBackgroundColor() at its end
applyPatternCode(codeSettings) ==
    /\ build = "rich"
    /\ ops < MaxOps
    /\ gridCols' = Or(codeSettings.grid.cols, 0, gridCols)
    /\ gridRows' = Or(codeSettings.grid.rows, 0, gridRows)
    /\ currentRamp1' = CodedRamp(codeSettings.pattern1.charSet, currentRamp1)
    /\ currentRamp2' = CodedRamp(codeSettings.pattern2.charSet, currentRamp2)
    /\ backgroundColor' = Or(codeSettings.colors.backgroundColor, "", backgroundColor)
    /\ UNCHANGED << build, saveVars, customChars, hidden, webcam, pauseVars, speedMultiplier,
                    targetFPS, mousePos >>
    /\ \E S \in { CodedSettings(codeSettings) } :
          /\ charSet' = [ p1 |-> CharSetOf(currentRamp1'),
                          p2 |-> IF S.pattern2.enabled
                                 THEN CharSetOf(currentRamp2') ELSE charSet.p2 ]
          /\ \E currentTime \in Clock :
                Redraw(currentTime, "applyPatternCode", S, CodedColors(S, codeSettings))
    /\ ops' = ops + 1

\* codes whose grid part holds a negative, a zero or a positive size
GridCodes ==
    { [ NoCode EXCEPT !.grid = [ cols |-> c, rows |-> r ] ]
      : c \in { -1, 0, 1 }, r \in { -1, 0, MaxRows } }

\* ---------------------------------------------------------- the grid's size
\* the grid sliders, pattern codes with a grid part, frames and text exports
LoadGridCode ==
    \E codeSettings \in GridCodes : applyPatternCode(codeSettings) /\ UNCHANGED call

NextGrid ==
    SetGridCols \/ SetGridRows \/ LoadGridCode \/ DrawFrame \/ exportTextFile

SpecGrid == Init /\ [][NextGrid]_vars

\* --------------------------------------------------------------- randomize
\* One click's Math.random() results.  The scripts build offers 'cellular'
\* and draws the colours as hues; the rich build draws them from lists.
RandomTypes == IF build = "scripts" THEN { "waves", "cellular", "voronoi" }
               ELSE { "waves", "noise", "voronoi" }

RandomColor(type) ==
    IF build = "scripts"
    THEN hslToHex([ h |-> IF type = "waves" THEN 0 ELSE (200 * Unit) \div 360,
                    s |-> (70 * Unit) \div 100, l |-> (60 * Unit) \div 100 ])
    ELSE IF type = "waves" THEN COLOR_PALETTES.cyberpunk[1]
    ELSE COLOR_PALETTES.cyberpunk[3]

RandomDraws ==
    { [ type1 |-> type, speed1 |-> IF type = "waves" THEN 1 ELSE 50,
        scale1 |-> IF type = "waves" THEN 200 ELSE 10,
        color1 |-> RandomColor(type), noiseVariant |-> "ridged",
        charSet1 |-> set1, enable2 |-> enable2,
        type2 |-> IF set1 = "hex" THEN "voronoi" ELSE "waves",
        speed2 |-> 50, scale2 |-> 10, color2 |-> RandomColor("voronoi"),
        amount |-> IF set1 = "hex" THEN Unit \div 5 ELSE Unit,
        mode |-> IF set1 = "hex" THEN "add" ELSE "screen",
        charSet2 |-> IF type = "waves" THEN "ascii" ELSE "braille",
        backgroundColor |-> IF enable2 THEN "#202040" ELSE "#000000",
        animation |-> ~palette, animationType |-> "rainbow", animationSpeed |-> 45,
        palette |-> palette, paletteName |-> "monochrome",
        paletteIndex |-> 5, paletteMode |-> "random" ]
      : type \in RandomTypes, set1 \in { "blocks", "hex", "braille" },
        enable2 \in BOOLEAN, palette \in BOOLEAN }

\* rich: whether the lock button of a setting is on
Locked(name) == build = "rich" /\ name \in colors.locks

\* the settings a click leaves, for the draws d; only the rich build clears
\* pattern2.enabled, and it writes it whatever the locks are
RandomSettings(d) ==
    LET type1 == IF Locked("pattern1Type") THEN settings.pattern1.type ELSE d.type1
        type2 == IF Locked("pattern2Type") THEN settings.pattern2.type ELSE d.type2
        one == [ settings.pattern1 EXCEPT
                     !.type = type1,
                     !.speed = IF Locked("pattern1Speed") THEN @ ELSE d.speed1,
                     !.scale = IF Locked("pattern1Scale") THEN @ ELSE d.scale1,
                     !.color = IF Locked("pattern1Color") THEN @ ELSE d.color1,
                     !.noiseVariant = IF build = "rich" /\ type1 = "noise"
                                      THEN d.noiseVariant ELSE @ ]
        two == [ settings.pattern2 EXCEPT
                     !.enabled = TRUE,
                     !.type = type2,
                     !.speed = IF Locked("pattern2Speed") THEN @ ELSE d.speed2,
                     !.scale = IF Locked("pattern2Scale") THEN @ ELSE d.scale2,
                     !.color = IF Locked("pattern2Color") THEN @ ELSE d.color2,
                     !.noiseVariant = IF build = "rich" /\ type2 = "noise"
                                      THEN d.noiseVariant ELSE @ ]
    IN  IF d.enable2
        THEN [ settings EXCEPT !.pattern1 = one, !.pattern2 = two,
                               !.blendSettings = [ mode |-> d.mode, amount |-> d.amount ] ]
        ELSE [ settings EXCEPT !.pattern1 = one,
                               !.pattern2.enabled = IF build = "rich" THEN FALSE ELSE @ ]

\* rich: settings.colors after a click; a palette is only applied by the next
\* frame.  The fallback colours for a white or black pattern colour are never
\* drawn, the colour lists holding neither.
RandomColors(d) ==
    LET animation == IF Locked("colorAnimation") THEN colors.animationEnabled
                     ELSE d.animation
        animated == ~Locked("colorAnimation") /\ d.animation
        palette == ~Locked("colorPalette") /\ d.palette
    IN  [ colors EXCEPT
              !.pattern1Color = IF Locked("pattern1Color") THEN @ ELSE d.color1,
              !.pattern2Color = IF d.enable2 /\ ~Locked("pattern2Color")
                                THEN d.color2 ELSE @,
              !.animationEnabled = animation,
              !.animationType = IF animated THEN d.animationType ELSE @,
              !.animationSpeed = IF animated THEN d.animationSpeed ELSE @,
              !.usePalette = IF Locked("colorPalette") THEN @ ELSE d.palette,
              !.paletteColors = IF palette THEN COLOR_PALETTES[d.paletteName] ELSE @,
              !.paletteIndex = IF palette THEN d.paletteIndex ELSE @,
              !.paletteColorMode = IF palette THEN d.paletteMode ELSE @,
              !.blendMode = IF d.enable2 THEN d.mode ELSE @,
              !.blendAmount = IF d.enable2 THEN d.amount ELSE @,
              !.animationTime = 0,
              !.randomColorTimer = 0 ]

\* the randomize button's click handler, with its initCellular(),
\* initVoronoi() and updateUIFromSettings()
randomize ==
    \E d \in RandomDraws : \E S \in { RandomSettings(d) } :
        /\ settings' = S
        /\ colors' = IF build = "rich" THEN RandomColors(d) ELSE colors
        /\ backgroundColor' = IF build = "rich" /\ ~Locked("backgroundColor")
                              THEN d.backgroundColor ELSE backgroundColor
        /\ currentRamp1' = ASCII_RAMPS[d.charSet1]
        /\ currentRamp2' = IF d.enable2 THEN ASCII_RAMPS[d.charSet2] ELSE currentRamp2
        /\ cellularGrid' \in
               IF build = "scripts"
                  /\ (S.pattern1.type = "cellular" \/ S.pattern2.type = "cellular")
               THEN initCellular ELSE { cellularGrid }
        /\ voronoiPoints' \in
               IF S.pattern1.type = "voronoi"
                  \/ (S.pattern2.type = "voronoi" /\ (build = "scripts" \/ S.pattern2.enabled))
               THEN initVoronoi ELSE { voronoiPoints }
        /\ charSet' = [ p1 |-> CharSetOf(currentRamp1'),
                        p2 |-> IF S.pattern2.enabled THEN CharSetOf(currentRamp2')
                               ELSE charSet.p2 ]
        /\ Op("randomize")
        /\ UNCHANGED << build, saveVars, call, customChars, hidden, webcam, loopVars, pauseVars,
                        gridVars, speedMultiplier, targetFPS, mousePos, fxVars, outVars >>

\* ------------------------------------------------------ the two glyph ramps
\* codes whose charSet is absent, a string or an array
RampCodes ==
    { [ NoCode EXCEPT !.pattern1.charSet = r1, !.pattern2.charSet = r2 ]
      : r1 \in { NoRamp, [ array |-> FALSE, items |-> << "a", "b" >> ],
                 [ array |-> TRUE, items |-> << >> ] },
        r2 \in { NoRamp, [ array |-> TRUE, items |-> << >> ] } }

LoadRampCode ==
    \E codeSettings \in RampCodes : applyPatternCode(codeSettings) /\ UNCHANGED call

NextRamps ==
    \/ pattern1CharSet
    \/ pattern2CharSet
    \/ pattern1CustomChars
    \/ pattern2CustomChars
    \/ randomize
    \/ LoadRampCode

SpecRamps == Init /\ [][NextRamps]_vars

\* ----------------------------------------------- getPatternValue on its own
\* the kinds whose value is computed from the arguments and the grid size only
StatelessKinds ==
    { "waves", "ripples", "noise", "spiral", "checkerboard", "stripes", "plasma",
      "mandelbrot", "julia", "tunnel", "mosaic" }

\* the times the calls are made at
PatternTimes == { FrameDelta, Unit }

\* getPatternValue called twice in a row for a corner cell with the same
\* arguments, the second call on the state the first one left; calls of the stateful kinds are
\* followed by further calls
CallGetPatternValue ==
    /\ ops < MaxPatternCalls
    /\ IF call = NoCall THEN TRUE ELSE call.type \notin StatelessKinds
    /\ \E type \in OfferedTypes, variant \in NoiseVariants, x \in { 0, gridCols - 1 },
          y \in { 0, gridRows - 1 }, t \in PatternTimes, w0 \in { World } :
       \E pattern \in { [ settings.pattern1 EXCEPT !.type = type,
                                                   !.noiseVariant = variant ] } :
       (type = "noise" \/ variant = "simplex") /\
       \E first \in { getPatternValue(x, y, pattern, t, w0) } :
       \E second \in { getPatternValue(x, y, pattern, t, first.w) } :
          /\ voronoiPoints' = second.w.voronoiPoints
          /\ cellularGrid' = second.w.cellularGrid
          /\ call' = [ name |-> "getPatternValue", type |-> type, x |-> x, y |-> y,
                       time |-> t, first |-> first.value, second |-> second.value,
                       before |-> w0,
                       after |-> [ second.w EXCEPT !.updates = 0 ],
                       updates |-> second.w.updates ]
    /\ ops' = ops + 1
    /\ UNCHANGED << build, pageVars, colors, loopVars, pauseVars, gridVars, cfgVars,
                    mousePos, fxVars, outVars, lastOp >>

SpecPattern == Init /\ [][CallGetPatternValue]_vars

\* ------------------------------------------------------ frames, whole or not
\* rich: the webcam button.  stopWebcam() clears both flags at once;
\* startWebcam() sets them when its awaits (camera stream, video metadata) are
\* over, or clears them when one of them fails, and writes nothing modelled
\* here before that
\* stopWebcam(): the interval is cleared, the tracks of webcamStream are stopped
stopWebcam(w) ==
    [ w EXCEPT !.intervals = @ \ { w.webcamInterval }, !.webcamInterval = 0,
               !.live = @ \ { w.webcamStream }, !.webcamStream = 0, !.srcObject = 0,
               !.isWebcamActive = FALSE, !.webcamMode = FALSE ]

\* startWebcam, from the result of getUserMedia to the second await
Acquired(w, start) ==
    [ w EXCEPT !.created = @ + 1, !.webcamStream = w.created + 1,
               !.live = @ \cup { w.created + 1 }, !.srcObject = w.created + 1,
               !.onloadedmetadata = start ]

\* startWebcam after the second await, with startWebcamRendering
Started(w) ==
    [ w EXCEPT !.isWebcamActive = TRUE, !.webcamMode = TRUE, !.created = @ + 1,
               !.intervals = (@ \ { w.webcamInterval }) \cup { w.created + 1 },
               !.webcamInterval = w.created + 1 ]

\* the catch clause of startWebcam
Failed(w) == [ w EXCEPT !.isWebcamActive = FALSE, !.webcamMode = FALSE ]

\* toggleWebcam with a getUserMedia that answers before anything else happens
toggleWebcam ==
    /\ build = "rich"
    /\ webcam' \in IF webcam.isWebcamActive
                   THEN { stopWebcam(webcam) }
                   ELSE { Started(Acquired(webcam, 0)), Failed(webcam) }
    /\ Op("toggleWebcam")
    /\ UNCHANGED << build, saveVars, call, charSet, customChars, hidden, colors, loopVars,
                    pauseVars, gridVars, cfgVars, mousePos, fxVars, simVars, outVars >>

\* settings.colors with the animation running, and with a palette in the
\* 'random' mode and its timer about to expire
FrameColors ==
    { DefaultColors,
      [ DefaultColors EXCEPT !.animationEnabled = TRUE, !.animationType = "rainbow",
                             !.animationSpeed = 45 ],
      [ DefaultColors EXCEPT !.usePalette = TRUE, !.paletteColorMode = "random",
                             !.paletteColors = << COLOR_PALETTES.cyberpunk[1],
                                                  COLOR_PALETTES.cyberpunk[2] >>,
                             !.randomColorTimer = 2 * Unit - FrameDelta ] }

\* the program with click effects allowed, a Voronoi or a waves pattern, and
\* one of the colour configurations
InitFrame ==
    /\ build \in { "scripts", "rich" }
    /\ cellularGrid = AllDead
    /\ voronoiPoints = VoronoiSeed(1)
    /\ SetupState
    /\ colors \in FrameColors
    /\ \E type \in { "waves", "voronoi" } :
          settings = [ DefaultSettings EXCEPT !.pattern1.type = type,
                                              !.interactive.enabled = TRUE ]
    /\ call = NoCall

\* the speed is chosen before the first frame, and one click is made
SpeedAtStart == frameCount = 0 /\ ops = 0 /\ SetSpeedMultiplier
FirstClick == nextId = 0 /\ mousePressed

NextFrame ==
    \/ DrawFrame
    \/ FirstClick
    \/ toggleWebcam
    \/ SetBackgroundColor
    \/ SpeedAtStart

SpecFrame == InitFrame /\ [][NextFrame]_vars

\* ------------------------------------------------- the swarm, calls and frames
\* the primary pattern is 'voronoi'; getVoronoiValue is called on its own and
\* by the cells of rendered frames
InitSwarm ==
    /\ build \in { "scripts", "rich" }
    /\ cellularGrid = AllDead
    /\ voronoiPoints \in initVoronoi
    /\ SetupState
    /\ colors = DefaultColors
    /\ settings = [ DefaultSettings EXCEPT !.pattern1.type = "voronoi" ]
    /\ call = NoCall

SwarmCall == ops < MaxSwarmCalls /\ CallGetVoronoiValue

NextSwarm == SwarmCall \/ DrawFrame

SpecSwarm == InitSwarm /\ [][NextSwarm]_vars

\* --------------------------------------------- activating the cellular pattern
\* scripts: the automaton as setup() seeded it, or one generation later, as a
\* frame with a cellular pattern leaves it
InitSeed ==
    /\ build = "scripts"
    /\ \E grid \in initCellular : cellularGrid \in { grid, updateCellular(grid) }
    /\ voronoiPoints = VoronoiSeed(1)
    /\ SetupState
    /\ colors = DefaultColors
    /\ settings = DefaultSettings
    /\ call = NoCall

NextSeed == SetPattern1Type \/ SetPattern2Type \/ randomize

SpecSeed == InitSeed /\ [][NextSeed]_vars

\* ------------------------------------------------------------------- locks
\* the settings with a lock button that randomize draws
LockNames ==
    { "backgroundColor", "pattern1Color", "pattern2Color", "pattern1Type",
      "pattern2Type", "pattern1Speed", "pattern2Speed", "pattern1Scale",
      "pattern2Scale", "colorAnimation", "colorPalette", "secondaryPattern" }

\* rich: the click handler of a lock button
toggleLock ==
    /\ build = "rich"
    /\ \E setting \in LockNames :
          colors' = [ colors EXCEPT !.locks = IF setting \in @ THEN @ \ { setting }
                                              ELSE @ \cup { setting } ]
    /\ Op("lock")
    /\ UNCHANGED << build, pageVars, call, loopVars, pauseVars, gridVars, cfgVars,
                    mousePos, fxVars, simVars, outVars >>

\* locks are set before the click
LockFirst == lastOp # "randomize" /\ toggleLock

\* the frames that follow the click
FrameAfterClick == lastOp \in { "randomize", "draw" } /\ DrawFrame

NextLocks == LockFirst \/ randomize \/ FrameAfterClick

\* the build with lock buttons
InitLocks == Init /\ build = "rich"

SpecLocks == InitLocks /\ [][NextLocks]_vars

\* ---------------------------------------------------- pattern code strings
\* A string is the sequence of its char codes: 32 is ' ', 46 '.', 48..57 the
\* digits, and the alphabet of btoa is A-Z a-z 0-9 + / =.
RECURSIVE SumCodes(_)
SumCodes(text) == IF text = << >> THEN 0 ELSE Head(text) + SumCodes(Tail(text))

\* code.split('').reduce((acc, char) => acc + char.charCodeAt(0), 0)
ChecksumPlain(text) == SumCodes(text)

\* ... % 1000
Checksum(text) == SumCodes(text) % 1000

\* checksum.toString().padStart(3, '0'), for 0 <= n < 1000
padStart(n) == << 48 + (n \div 100), 48 + ((n \div 10) % 10), 48 + (n % 10) >>

\* code.split('.')
RECURSIVE split(_)
split(code) ==
    IF \A i \in DOMAIN code : code[i] # 46 THEN << code >>
    ELSE LET dot == CHOOSE i \in DOMAIN code :
                        code[i] = 46 /\ \A j \in 1..(i - 1) : code[j] # 46
         IN  << SubSeq(code, 1, dot - 1) >> \o split(SubSeq(code, dot + 1, Len(code)))

\* value.trim()
RECURSIVE trim(_)
trim(text) ==
    IF text = << >> THEN text
    ELSE IF Head(text) = 32 THEN trim(Tail(text))
    ELSE IF text[Len(text)] = 32 THEN trim(SubSeq(text, 1, Len(text) - 1))
    ELSE text

\* parseInt(text): white space is skipped, then the longest run of digits is
\* read; NaN without one.  No sign occurs in the strings of this model.
RECURSIVE Digits(_, _)
Digits(text, acc) ==
    IF text = << >> \/ Head(text) \notin 48..57 THEN acc
    ELSE Digits(Tail(text), 10 * acc + (Head(text) - 48))

parseInt(text) ==
    LET rest == trim(text)
    IN  IF rest = << >> \/ Head(rest) \notin 48..57 THEN [ nan |-> TRUE, value |-> 0 ]
        ELSE [ nan |-> FALSE, value |-> Digits(rest, 0) ]

\* true and false as JSON carries them
Flag(b) == IF b THEN "true" ELSE "false"

\* codeSettings of generatePatternCode: the colours and the blend fields are
\* read from settings.colors.  charSize, charSpacing and glow are not part of
\* this model.
CodeSettings ==
    [ grid |-> [ cols |-> gridCols, rows |-> gridRows ],
      pattern1 |-> [ type |-> settings.pattern1.type, speed |-> settings.pattern1.speed,
                     scale |-> settings.pattern1.scale, color |-> colors.pattern1Color,
                     noiseVariant |-> settings.pattern1.noiseVariant,
                     charSet |-> [ array |-> FALSE, items |-> currentRamp1 ] ],
      pattern2 |-> [ enabled |-> Flag(settings.pattern2.enabled),
                     type |-> settings.pattern2.type, speed |-> settings.pattern2.speed,
                     scale |-> settings.pattern2.scale, color |-> colors.pattern2Color,
                     noiseVariant |-> settings.pattern2.noiseVariant,
                     charSet |-> [ array |-> FALSE, items |-> currentRamp2 ] ],
      interactive |-> [ enabled |-> Flag(settings.interactive.enabled),
                        type |-> settings.interactive.type,
                        strength |-> settings.interactive.strength,
                        radius |-> settings.interactive.radius,
                        clickEnabled |-> Flag(settings.interactive.clickEnabled) ],
      colors |-> [ backgroundColor |-> backgroundColor, blendMode |-> colors.blendMode,
                   blendAmount |-> colors.blendAmount ] ]

\* generatePatternCode, text being btoa(unescape(encodeURIComponent(jsonString)))
generatePatternCode(text) == text \o << 46 >> \o padStart(Checksum(text))

\* The base64 texts of this model: runs of '/', 'A', 'd' and 'z', whose sums of
\* char codes lie on both sides of 100 and of 1000.
RECURSIVE Repeat(_, _)
Repeat(c, n) == IF n = 0 THEN << >> ELSE << c >> \o Repeat(c, n - 1)

Base64Texts == { Repeat(c, n) : c \in { 47, 65, 100, 122 }, n \in { 1, 2, MaxTextLen } }

\* copyPatternCode: the code of the current configuration goes to the
\* clipboard.  The text btoa returns for a configuration is not computed here:
\* any base64 text may be the one, and decoding it gives the configuration back.
copyPatternCode ==
    /\ build = "rich"
    /\ call = NoCall
    /\ \E text \in Base64Texts :
          call' = [ name |-> "copyPatternCode", code |-> generatePatternCode(text),
                    codeSettings |-> CodeSettings, toast |-> "success" ]
    /\ UNCHANGED << build, pageVars, colors, loopVars, pauseVars, gridVars, cfgVars,
                    mousePos, fxVars, simVars, outVars, lastOp, ops >>

\* JSON.parse(decodeURIComponent(escape(atob(encodedSettings)))): the text of
\* the copied code gives its configuration back; any other text either throws
\* or is a JSON value without any of the five parts
Decoded(encodedSettings) ==
    IF call # NoCall /\ call.name = "copyPatternCode"
    THEN IF split(call.code)[1] = encodedSettings
         THEN { [ throws |-> FALSE, codeSettings |-> call.codeSettings ] }
         ELSE { [ throws |-> TRUE, codeSettings |-> NoCode ],
                [ throws |-> FALSE, codeSettings |-> NoCode ] }
    ELSE { [ throws |-> TRUE, codeSettings |-> NoCode ],
           [ throws |-> FALSE, codeSettings |-> NoCode ] }

\* what loadPatternFromCode(code) does before applyPatternCode: the toast of
\* an early return, or "" when the checks pass
Rejection(code) ==
    IF code = << >> THEN "Please enter a pattern code"
    ELSE IF Len(split(code)) # 2 THEN "Invalid pattern code format"
    ELSE LET parts == split(code)
             checksum == parseInt(parts[2])
         IN  IF checksum.nan \/ checksum.value # Checksum(parts[1])
             THEN "Invalid pattern code (checksum mismatch)"
             ELSE ""

\* a return of loadPatternFromCode that has changed nothing
Rejected(code, message) ==
    /\ Op("loadPatternFromCode")
    /\ call' = [ name |-> "loadPatternFromCode", code |-> code, toast |-> "error",
                 message |-> message ]
    /\ UNCHANGED << build, pageVars, colors, loopVars, pauseVars, gridVars, cfgVars,
                    mousePos, fxVars, simVars, outVars >>

\* loadPatternFromCode() with the text of the input field
loadPatternFromCode(value) ==
    /\ build = "rich"
    /\ \E code \in { trim(value) } :
          IF Rejection(code) # ""
          THEN Rejected(code, Rejection(code))
          ELSE \E d \in Decoded(split(code)[1]) :
                  IF d.throws
                  THEN Rejected(code, "Failed to load pattern code")
                  ELSE /\ applyPatternCode(d.codeSettings)
                       /\ call' = [ name |-> "loadPatternFromCode", code |-> code,
                                    toast |-> "success",
                                    message |-> "Pattern loaded successfully!" ]

\* the strings typed into the input field
TypedCodes ==
    { << >>, << 32 >>, << 65 >>, << 46 >>, << 65, 46 >>, << 46, 48 >>,
      << 65, 46, 48, 54, 53 >>, << 32, 65, 46, 54, 53, 32 >>, << 65, 46, 48, 54, 54 >>,
      << 65, 46, 48, 46, 54, 53 >>, << 65, 46, 54, 53, 46 >>, << 65, 32, 46, 48, 54, 53 >>,
      << 65, 46, 120 >> }

\* Enter in the input field, which holds a typed string or the pasted clipboard
KeypressEnter ==
    \/ \E value \in TypedCodes : loadPatternFromCode(value)
    \/ /\ call # NoCall
       /\ call.name = "copyPatternCode"
       /\ loadPatternFromCode(call.code)

\* the load button: loadPatternFromCode is the listener itself, so that code
\* is the click event, whose split is not a function
LoadClick ==
    /\ build = "rich"
    /\ Rejected(<< >>, "Failed to load pattern code")

\* the configuration is changed by the blend controls
NextCode == copyPatternCode \/ KeypressEnter \/ LoadClick \/ SetBlend

InitCode == Init /\ build = "rich"

SpecCode == InitCode /\ [][NextCode]_vars

\* -------------------------------------------------------------- mosaic calls
\* the gridCols slider, over the grids of the mosaic calls
SetMosaicCols ==
    /\ \E c \in 1 .. MosaicSize : gridCols' = c
    /\ Op("gridCols")
    /\ UNCHANGED << build, pageVars, colors, call, loopVars, pauseVars, gridRows,
                    cfgVars, mousePos, fxVars, simVars, outVars >>

\* pattern.scale over the range of the scale sliders, 0.01 to 0.2
MosaicScales == { 10, 50, 100, 150, 200 }

\* the hash of case 'mosaic' of getPatternValue, for a cell of the grid
CallMosaicHash ==
    /\ \E x \in 0 .. (gridCols - 1), y \in 0 .. (gridRows - 1), sc \in MosaicScales :
          \E mosaicX \in { (x * sc * 200) \div (gridCols * Unit) },
             mosaicY \in { (y * sc * 200) \div (gridRows * Unit) } :
             call' = [ name |-> "mosaicHash", x |-> x, y |-> y, scale |-> sc,
                       mosaicX |-> mosaicX, mosaicY |-> mosaicY,
                       value |-> mosaicHash(mosaicX, mosaicY) ]
    /\ UNCHANGED << build, pageVars, colors, loopVars, pauseVars, gridVars, cfgVars,
                    mousePos, fxVars, simVars, outVars, lastOp, ops >>

NextMosaic == SetMosaicCols \/ CallMosaicHash

SpecMosaic == Init /\ [][NextMosaic]_vars

\* --------------------------------------------------------------- downloads
\* data-format of the download options
Formats == { "png", "jpeg", "txt", "gif" }

\* time between a click and the event before it (ms)
ClickGaps == { 0, 100, 200 }

\* the timer whose callback runs next: the earliest due, the first set of these
NextTimer ==
    CHOOSE i \in DOMAIN timers :
        \A j \in DOMAIN timers :
            timers[i].due < timers[j].due \/ (timers[i].due = timers[j].due /\ i <= j)

Remove(seq, i) == SubSeq(seq, 1, i - 1) \o SubSeq(seq, i + 1, Len(seq))

\* setTimeout(callback, delay) at time at; original is what a restore callback
\* has captured
Timer(callback, at, delay, format, original) ==
    [ callback |-> callback, due |-> at + delay, format |-> format,
      original |-> original ]

\* the click handler of a download option; a click comes no earlier than the
\* callbacks that are due before it
DownloadOptionClick ==
    /\ \E format \in Formats, gap \in ClickGaps :
          /\ \A i \in DOMAIN timers : timers[i].due >= now + gap
          /\ now' = now + gap
          /\ IF isSaving
             THEN UNCHANGED << isSaving, timers, exported >>
             ELSE /\ isSaving' = TRUE
                  /\ timers' = Append(timers, Timer("export", now', 50, format, canvas))
                  /\ exported' = [ exported EXCEPT !.accepted = @ + 1 ]
    /\ Op("downloadOption")
    /\ UNCHANGED << build, charSet, customChars, hidden, webcam, canvas, colors, call,
                    loopVars, pauseVars, gridVars, cfgVars, mousePos, fxVars, simVars,
                    outVars >>

\* exportGifAnimation: duration in ms
GifDuration ==
    CASE settings.pattern1.type \in { "waves", "ripples" } -> 1000
      [] settings.pattern1.type \in { "spiral", "tunnel" } -> 1500
      [] settings.pattern1.type = "cellular" -> 2000
      [] settings.pattern1.type \in { "mandelbrot", "julia" } -> 2500
      [] OTHER -> 1000

\* rich: the off-screen canvas of createCustomGif, sized from the globals width
\* and height with baseCharWidth 8, baseCharHeight 14 and charSpacing 1.0
OffscreenCanvas(id) ==
    LET gridPixelWidth == gridCols * 8
        gridPixelHeight == gridRows * 14
        scaleX == (canvas.width * Unit) \div gridPixelWidth
        scaleY == (canvas.height * Unit) \div gridPixelHeight
        least == IF scaleX < scaleY THEN scaleX ELSE scaleY
        displayGridScale == IF least < Unit THEN least ELSE Unit
    IN  [ canvas |-> id, width |-> (gridPixelWidth * displayGridScale) \div Unit,
          height |-> (gridPixelHeight * displayGridScale) \div Unit ]

\* exportCanvasFile(format) returns without a recording when the format is
\* not 'gif' or the animation is paused
Records(format) == format = "gif" /\ ~isPaused

\* without the finally clause an exception would skip the timer
AfterExportUncaught(throws, at, format) ==
    IF throws THEN << >> ELSE << Timer("reset", at, 100, format, canvas) >>

\* finally { setTimeout(() => { hideMenu(); isSaving = false; }, 100); }
AfterExport(throws, at, format) == << Timer("reset", at, 100, format, canvas) >>

\* the callback of the click handler's setTimeout(..., 50): exportCanvasFile in
\* try/catch, then setTimeout(..., 100) in the finally clause.  An exception
\* of exportCanvasFile is taken to leave no trace in the state.
ExportTimeout ==
    /\ timers # << >>
    /\ timers[NextTimer].callback = "export"
    /\ \E throws \in BOOLEAN, t \in { timers[NextTimer] }, w0 \in { World } :
       \E at \in { IF now < t.due THEN t.due ELSE now },
          gif \in { ~throws /\ Records(t.format) },
          pass \in { IF throws \/ t.format = "gif" THEN [ w |-> w0, glyphs |-> NoGlyphs ]
                     ELSE IF t.format = "txt"
                     THEN RenderPass(RowMajor, 1, time, clickEffects, w0, NoGlyphs)
                     ELSE RenderPass(ColumnMajor, 1, time, clickEffects, w0, NoGlyphs) } :
          /\ now' = at
          /\ textContent' = IF ~throws /\ t.format = "txt"
                            THEN [ y \in 1 .. gridRows |->
                                     [ x \in 1 .. gridCols |->
                                         pass.glyphs[<< x - 1, y - 1 >>] ] ]
                            ELSE textContent
          /\ voronoiPoints' = pass.w.voronoiPoints
          /\ cellularGrid' = pass.w.cellularGrid
          /\ exported' = [ exported EXCEPT !.calls = @ + 1,
                                           !.thrown = IF throws THEN @ + 1 ELSE @,
                                           !.recordings = IF gif THEN @ + 1 ELSE @ ]
          /\ canvas' = IF gif /\ build = "rich"
                       THEN OffscreenCanvas(exported.recordings + 1) ELSE canvas
          /\ timers' = Remove(timers, NextTimer)
                       \o (IF gif /\ build = "rich"
                           THEN << Timer("restore", at, GifDuration + 1000, "gif", canvas) >>
                           ELSE << >>)
                       \o AfterExport(throws, at, t.format)
    /\ lastOp' = "exportCanvasFile"
    /\ UNCHANGED << build, charSet, customChars, hidden, webcam, isSaving, colors, call,
                    loopVars, pauseVars, gridVars, cfgVars, mousePos, fxVars, screen,
                    frameUpdates, frameSnapshot, ops >>

\* the callback of the finally clause's timer: hideMenu(); isSaving = false
ResetTimeout ==
    /\ timers # << >>
    /\ timers[NextTimer].callback = "reset"
    /\ now' = IF now < timers[NextTimer].due THEN timers[NextTimer].due ELSE now
    /\ isSaving' = FALSE
    /\ timers' = Remove(timers, NextTimer)
    /\ lastOp' = "reset"
    /\ UNCHANGED << build, charSet, customChars, hidden, webcam, canvas, exported, colors,
                    call, loopVars, pauseVars, gridVars, cfgVars, mousePos, fxVars,
                    simVars, outVars, ops >>

\* rich: the callback of createCustomGif's timer: canvas, width and height are
\* set to the values captured when the recording started
RestoreTimeout ==
    /\ timers # << >>
    /\ timers[NextTimer].callback = "restore"
    /\ now' = IF now < timers[NextTimer].due THEN timers[NextTimer].due ELSE now
    /\ canvas' = timers[NextTimer].original
    /\ timers' = Remove(timers, NextTimer)
    /\ lastOp' = "restore"
    /\ UNCHANGED << build, charSet, customChars, hidden, webcam, isSaving, exported,
                    colors, call, loopVars, pauseVars, gridVars, cfgVars, mousePos,
                    fxVars, simVars, outVars, ops >>

Timeout == ExportTimeout \/ ResetTimeout \/ RestoreTimeout

\* one seed of each simulation; GifTypes are the kinds of pattern 1
SeededWith(GifTypes) ==
    /\ build \in { "scripts", "rich" }
    /\ cellularGrid = (IF build = "scripts" THEN Only(initCellular) ELSE AllDead)
    /\ voronoiPoints = VoronoiSeed(1)
    /\ SetupState
    /\ colors = DefaultColors
    /\ \E type \in GifTypes :
          settings = [ DefaultSettings EXCEPT !.pattern1.type = type ]
    /\ call = NoCall

InitSave == SeededWith({ "waves" })

NextSave == DownloadOptionClick \/ Timeout

\* every callback that is due runs
SpecSave == InitSave /\ [][NextSave]_vars /\ WF_vars(Timeout)

\* downloads of a running and of a paused animation
NextGif == DownloadOptionClick \/ Timeout \/ PlayPauseClick

\* recordings of 1 s and of 2.5 s
InitGif == SeededWith({ "waves", "julia" })

SpecGif == InitGif /\ [][NextGif]_vars

\* ------------------------------------------------------ webcam, step by step
\* a click on the webcam button: toggleWebcam, up to startWebcam's first await
WebcamClick ==
    /\ build = "rich"
    /\ ops < MaxWebcamClicks
    /\ ops' = ops + 1
    /\ IF webcam.isWebcamActive
       THEN webcam' = stopWebcam(webcam) /\ lastOp' = "stopWebcam"
       ELSE /\ webcam' = [ webcam EXCEPT !.starts = @ \cup { << ops + 1, "getUserMedia" >> } ]
            /\ lastOp' = "startWebcam"
    /\ UNCHANGED << build, saveVars, call, charSet, customChars, hidden, colors, loopVars,
                    pauseVars, gridVars, cfgVars, mousePos, fxVars, simVars, outVars >>

\* getUserMedia resolves: the stream is stored and played, and the call waits
\* for the video's loadedmetadata
getUserMediaResolved ==
    /\ \E start \in webcam.starts :
          /\ start[2] = "getUserMedia"
          /\ webcam' = [ Acquired(webcam, start[1]) EXCEPT
                             !.starts = (@ \ { start }) \cup { << start[1], "metadata" >> } ]
    /\ lastOp' = "getUserMedia"
    /\ UNCHANGED << build, saveVars, call, charSet, customChars, hidden, colors, loopVars,
                    pauseVars, gridVars, cfgVars, mousePos, fxVars, simVars, outVars, ops >>

\* getUserMedia rejects: the catch clause
getUserMediaRejected ==
    /\ \E start \in webcam.starts :
          /\ start[2] = "getUserMedia"
          /\ webcam' = [ Failed(webcam) EXCEPT !.starts = @ \ { start } ]
    /\ lastOp' = "catch"
    /\ UNCHANGED << build, saveVars, call, charSet, customChars, hidden, colors, loopVars,
                    pauseVars, gridVars, cfgVars, mousePos, fxVars, simVars, outVars, ops >>

\* the video element fires loadedmetadata for its stream: the call whose
\* resolve is the handler goes on
loadedmetadata ==
    /\ webcam.srcObject # 0
    /\ \E start \in webcam.starts :
          /\ start = << webcam.onloadedmetadata, "metadata" >>
          /\ webcam' = [ Started(webcam) EXCEPT !.starts = @ \ { start },
                                               !.onloadedmetadata = 0 ]
    /\ lastOp' = "loadedmetadata"
    /\ UNCHANGED << build, saveVars, call, charSet, customChars, hidden, colors, loopVars,
                    pauseVars, gridVars, cfgVars, mousePos, fxVars, simVars, outVars, ops >>

NextWebcam == WebcamClick \/ getUserMediaResolved \/ getUserMediaRejected \/ loadedmetadata

InitWebcam == Init /\ build = "rich"

SpecWebcam == InitWebcam /\ [][NextWebcam]_vars

\* ================================================================ properties
PatternValueAt(c, pattern) == getPatternValue(c[1], c[2], pattern, time, World).value

\* C1: for every pattern kind, every cell of the grid and every time,
\* getPatternValue returns a value in [0,1].
C1_PatternValueInUnitRange ==
    \A c \in Cells : \A pattern \in { settings.pattern1, settings.pattern2 } :
        PatternValueAt(c, pattern) >= 0 /\ PatternValueAt(c, pattern) <= Unit

\* the live cells of grid next to cell c, cells outside the grid being dead
LiveAround(grid, c) ==
    Cardinality({ n \in grid : n # c /\ Abs(n[1] - c[1]) <= 1 /\ Abs(n[2] - c[2]) <= 1 })

\* Conway's rule for cell c of grid
ConwayAlive(grid, c) ==
    LiveAround(grid, c) = 3 \/ (c \in grid /\ LiveAround(grid, c) = 2)

\* C2: updateCellular is one Game-of-Life generation on the 40 x 30 grid:
\* a cell is live afterwards iff it was live with 2 or 3 live neighbours or
\* dead with exactly 3, counted on the grid as it was before the step.
C2_OneConwayGeneration ==
    call.name = "updateCellular" =>
        /\ cellularGrid = call.after
        /\ call.after \subseteq CellIndex
        /\ \A c \in CellIndex : c \in call.after <=> ConwayAlive(call.before, c)

\* a step in which a dead cell with 3 live neighbours is born, a live cell
\* with 1 live neighbour dies, and a cell of the last row is live
C2_BirthAndDeath ==
    /\ call.name = "updateCellular"
    /\ \E c \in CellIndex \ call.before :
          LiveAround(call.before, c) = 3 /\ c \in call.after
    /\ \E c \in call.before : LiveAround(call.before, c) = 1 /\ c \notin call.after
    /\ \E c \in call.before : c[2] = CellRows - 1

\* C3: one frame pass of draw() runs updateCellular at most once, and only in
\* a frame whose floor(time*speed*100) % 30 is 0.
C3_AtMostOneGenerationPerFrame ==
    lastOp = "draw" =>
        /\ frameUpdates <= 1
        /\ frameUpdates = 1 =>
              \E pattern \in { settings.pattern1, settings.pattern2 } :
                  CellularGate(pattern, time)

\* C4: after initVoronoi and any number of getVoronoiValue calls, each of the
\* 8 Voronoi points has 0 <= x <= 1 and 0 <= y <= 1.
C4_PointsInUnitSquare ==
    /\ Len(voronoiPoints) = NumVoronoi
    /\ \A i \in 1 .. Len(voronoiPoints) :
          /\ voronoiPoints[i].x >= 0 /\ voronoiPoints[i].x <= Unit
          /\ voronoiPoints[i].y >= 0 /\ voronoiPoints[i].y <= Unit

\* getVoronoiValue has been called and a point sits on an edge, moving inwards
C4_PointBounced ==
    /\ call.name = "getVoronoiValue"
    /\ \E i \in 1 .. Len(voronoiPoints) :
          \/ voronoiPoints[i].x = 0 /\ voronoiPoints[i].vx > 0
          \/ voronoiPoints[i].x = Unit /\ voronoiPoints[i].vx < 0
          \/ voronoiPoints[i].y = 0 /\ voronoiPoints[i].vy > 0
          \/ voronoiPoints[i].y = Unit /\ voronoiPoints[i].vy < 0

\* the whole decrements a click effect outlives: 3.0 / 0.016 = 187.5
LifeFrames == ClickLife \div FrameDelta

C6_PausedTimeStandsStill ==
    [][ (isPaused /\ isPaused') => (time' = time /\ frameCount' = frameCount) ]_vars

\* C7: exportTextFile and exportHighResCanvas leave time, clickEffects, the
\* Voronoi points and the cellular grid as they were.
C7_ExportLeavesLoopState ==
    [][ (ops' = ops + 1 /\ lastOp' \in { "exportText", "exportHighRes" })
        => UNCHANGED << time, clickEffects, voronoiPoints, cellularGrid >> ]_vars

\* C8: for the snapshot the last frame was drawn from, the text exportTextFile
\* writes has gridRows lines of gridCols characters, and its character at line
\* y, column x is the glyph on screen at cell (x, y).
C8_TextEqualsScreen ==
    (lastOp = "exportText" /\ frameSnapshot = Snapshot(time, clickEffects)) =>
        /\ Len(textContent) = gridRows
        /\ \A y \in 1 .. gridRows :
              /\ Len(textContent[y]) = gridCols
              /\ \A x \in 1 .. gridCols :
                    textContent[y][x] = screen[<< x - 1, y - 1 >>]

\* value2 dampened towards 0.5 by amount
Dampened(value2, amount) == Half + ((value2 - Half) * amount) \div Unit

\* the formula of each blend mode, on value1 and the dampened value2
StatedBlend(v1, v2, mode) ==
    CASE mode = "add" -> Max2(0, Min2(Unit, v1 + v2 - Half))
      [] mode = "multiply" -> (v1 * v2) \div Unit
      [] mode = "overlay" ->
            IF v1 < Half THEN (2 * v1 * v2) \div Unit
            ELSE Unit - (2 * (Unit - v1) * (Unit - v2)) \div Unit
      [] mode = "difference" -> IF v1 >= v2 THEN v1 - v2 ELSE v2 - v1
      [] mode = "screen" -> Unit - ((Unit - v1) * (Unit - v2)) \div Unit

\* C9: for value1, value2 and amount in [0,1] and each of the five modes,
\* blendValues returns a value in [0,1], the mode's formula applied to value1
\* and to value2 dampened towards 0.5 by amount.
C9_BlendInUnitRange ==
    (call.name = "blendValues" /\ call.mode \in BlendModes) =>
        /\ call.result >= 0 /\ call.result <= Unit
        /\ call.result = StatedBlend(call.value1,
                                     Dampened(call.value2, call.amount), call.mode)

\* an "add" whose sum exceeds 1 before it is constrained
C9_AddClamped ==
    /\ call.name = "blendValues" /\ call.mode = "add"
    /\ call.value1 + Dampened(call.value2, call.amount) - Half > Unit
    /\ call.result = Unit

\* C10 as stated: blendValues(v1, v2, 'multiply', 0) = v1.
C10_MultiplyZeroIsIdentity ==
    (call.name = "blendValues" /\ call.mode = "multiply" /\ call.amount = 0) =>
        call.result = call.value1

\* C10 as the code has it: blendValues(v1, v2, 'multiply', 0) = v1 * 0.5,
\* whatever v2 is.
C10_MultiplyZeroHalves ==
    (call.name = "blendValues" /\ call.mode = "multiply" /\ call.amount = 0) =>
        2 * call.result = call.value1

\* a multiply with amount 0 of a positive value1 and a value2 other than 0.5
C10_MultiplyZeroCall ==
    /\ call.name = "blendValues" /\ call.mode = "multiply" /\ call.amount = 0
    /\ call.value1 > 0 /\ call.value2 # Half

Channels == { "r", "g", "b" }

\* clamp(c1 + c2 * v1 * v2, 0, 255) of one channel of a call, in millionths
StatedAdd(ch) ==
    Constrain(hexToRgb(call.color1)[ch] * Micro
              + hexToRgb(call.color2)[ch] * call.value1 * call.value2,
              0, FullChannel)

AddAtFullAmount ==
    call.name = "blendColors" /\ call.mode = "add" /\ call.amount = Unit

\* C11 as stated: with mode 'add' and amount 1 every channel of the colour
\* that blendColors returns equals clamp(c1 + c2*v1*v2, 0, 255) exactly.
C11_AddChannelExact ==
    AddAtFullAmount =>
        \A ch \in Channels : call.result[ch] * Micro = StatedAdd(ch)

\* C11 as the code has it: with mode 'add' and amount 1 every returned
\* channel is clamp(c1 + c2*v1*v2, 0, 255) rounded down to an integer.
C11_AddChannelFloored ==
    AddAtFullAmount =>
        \A ch \in Channels :
            /\ call.result[ch] \in 0 .. 255
            /\ call.result[ch] * Micro <= StatedAdd(ch)
            /\ StatedAdd(ch) < (call.result[ch] + 1) * Micro

\* an 'add' at amount 1 whose sum is inside the range and not an integer
C11_FractionalSum ==
    /\ AddAtFullAmount
    /\ \E ch \in Channels :
          /\ StatedAdd(ch) < FullChannel
          /\ StatedAdd(ch) % Micro # 0

\* C12: for every non-empty ramp and every value the glyph index is
\* floor(value * (ramp.length - 1)) clamped to [0, ramp.length - 1]: value 0
\* gives ramp[0], value 1 the last character, a value below 0 ramp[0], a value
\* above 1 the last character, a ramp of length 1 always its only character,
\* and the index is never outside the ramp.
C12_GlyphIndexClamped ==
    call.name = "MapToChar" =>
        LET n == Len(call.ramp)
            scaled == call.value * (n - 1)
            idx == call.charIndex
        IN  /\ idx \in 0 .. n - 1
            /\ call.char = call.ramp[idx + 1]
            /\ scaled < 0 => idx = 0
            /\ scaled >= (n - 1) * Unit => idx = n - 1
            /\ (scaled >= 0 /\ scaled < (n - 1) * Unit) =>
                  (idx * Unit <= scaled /\ scaled < (idx + 1) * Unit)
            /\ call.value <= 0 => call.char = call.ramp[1]
            /\ call.value >= Unit => call.char = call.ramp[n]
            /\ n = 1 => call.char = call.ramp[1]

\* a value above 1 mapped onto a ramp of several characters, whose unclamped
\* index lies beyond the ramp
C12_AboveOneClamped ==
    /\ call.name = "MapToChar"
    /\ call.value > Unit
    /\ Len(call.ramp) > 1
    /\ (call.value * (Len(call.ramp) - 1)) \div Unit > Len(call.ramp) - 1
    /\ call.char = call.ramp[Len(call.ramp)]

\* the state right after one cell was composed on its own
CellComposed == call.name = "ComposeCell" /\ lastOp = "cell"

\* C13: with pattern 2 disabled a cell uses the primary ramp and pattern 1's
\* colour; with pattern 2 enabled it uses the primary ramp iff
\* v1 * v2 * amount < 0.5 and the secondary ramp otherwise, v1 and v2 being
\* the two pattern values before blending and before the interactive effect.
C13_RampSelection ==
    CellComposed =>
        IF settings.pattern2.enabled
        THEN /\ call.useRamp1 <=>
                   call.value1 * call.value2 * settings.blendSettings.amount
                       < Half * Micro
             /\ call.ramp = IF call.useRamp1 THEN currentRamp1 ELSE currentRamp2
             /\ call.char = MapToChar(call.finalValue, call.ramp)
        ELSE /\ call.useRamp1
             /\ call.ramp = currentRamp1
             /\ call.char = MapToChar(call.finalValue, currentRamp1)
             /\ call.color = settings.pattern1.color

\* a cell drawn from the secondary ramp, which differs from the primary one,
\* at a blend strength of exactly 0.5
C13_SecondaryRampUsed ==
    /\ CellComposed
    /\ settings.pattern2.enabled
    /\ call.value1 * call.value2 * settings.blendSettings.amount = Half * Micro
    /\ currentRamp1 # currentRamp2
    /\ call.ramp = currentRamp2

\* the square of the distance between the cell (x, y) and the point (px, py)
SquaredDistance(x, y, px, py) ==
    ((x * Unit) \div gridCols - px) * ((x * Unit) \div gridCols - px)
        + ((y * Unit) \div gridRows - py) * ((y * Unit) \div gridRows - py)

\* the cell is at least a radius away from the pointer and from every click
OutOfReach(x, y) ==
    /\ SquaredDistance(x, y, mousePos.x, mousePos.y)
           >= settings.interactive.radius * settings.interactive.radius
    /\ \A i \in DOMAIN clickEffects :
           SquaredDistance(x, y, clickEffects[i].x, clickEffects[i].y)
               >= clickEffects[i].radius * clickEffects[i].radius

EffectApplied == call.name = "applyInteractiveEffect" /\ lastOp = "effect"

\* C14: applyInteractiveEffect returns a value in [0,1]; for a cell at least a
\* radius away from the pointer and from every click effect it returns the
\* base value clamped to [0,1]; and with interactive.enabled false the final
\* value of a cell is its blended value, unchanged.
C14_OverlayInUnitRange ==
    /\ EffectApplied =>
          /\ call.result >= 0 /\ call.result <= Unit
          /\ OutOfReach(call.x, call.y) =>
                call.result = Max2(0, Min2(Unit, call.baseValue))
    /\ CellComposed =>
          IF settings.interactive.enabled
          THEN call.finalValue >= 0 /\ call.finalValue <= Unit
          ELSE call.finalValue = call.blended

\* the overlay applied, with click effects alive, to a cell out of reach whose
\* base value is above 1
C14_FarCellClamped ==
    /\ EffectApplied
    /\ clickEffects # << >>
    /\ OutOfReach(call.x, call.y)
    /\ call.baseValue > Unit
    /\ call.result = Unit

\* C15: after any sequence of play/pause clicks and visibilitychange events
\* the loop never runs while the tab is hidden, and when the tab becomes
\* visible the loop runs iff isPaused is false.
C15_VisibilityGatesLoop ==
    /\ [](hidden => ~looping)
    /\ [][(hidden /\ ~hidden') => (looping' <=> ~isPaused')]_vars

\* C16: mousePressed appends a click effect only while interactive.enabled and
\* clickEnabled are both true and the pointer maps inside [0,1] x [0,1], and
\* otherwise leaves clickEffects unchanged; an appended effect has x and y in
\* [0,1], life = maxLife = 3.0, and the strength and radius of the interactive
\* settings at the time of the click.
C16_ClickEffectAppended ==
    [][ \/ clickEffects' = clickEffects
        \/ /\ settings.interactive.enabled /\ settings.interactive.clickEnabled
           /\ Len(clickEffects') = Len(clickEffects) + 1
           /\ SubSeq(clickEffects', 1, Len(clickEffects)) = clickEffects
           /\ LET e == clickEffects'[Len(clickEffects')]
              IN  /\ e.x >= 0 /\ e.x <= Unit
                  /\ e.y >= 0 /\ e.y <= Unit
                  /\ e.life = ClickLife /\ e.maxLife = ClickLife
                  /\ e.strength = settings.interactive.strength
                  /\ e.radius = settings.interactive.radius ]_vars

\* C17: a grid with a non-positive dimension is rejected at configuration
\* time: after any sequence of grid-slider inputs and pattern-code loads,
\* gridCols and gridRows are positive whenever draw() or an export iterates
\* the grid.
C17_GridPositiveWhenDrawn ==
    /\ frameSnapshot.time # -1 =>
          (frameSnapshot.gridCols > 0 /\ frameSnapshot.gridRows > 0)
    /\ lastOp = "exportText" => (gridCols > 0 /\ gridRows > 0)

\* C18: after any sequence of character-set selections, custom-text edits,
\* randomize clicks and pattern-code loads, both ramps have at least one
\* glyph.
C18_RampsNeverEmpty == Len(currentRamp1) >= 1 /\ Len(currentRamp2) >= 1

C20_FrameWholeOrSkipped ==
    [][ /\ lastOp' = "skip"
           => UNCHANGED << time, clickEffects, colors, settings, voronoiPoints,
                           cellularGrid, lastFrameTime, frameCount, screen >>
        /\ lastOp' \in { "draw", "backgroundColor" }
           => /\ time' = time + (FrameDelta * speedMultiplier) \div Unit
              /\ frameCount' = frameCount + 1
              /\ DOMAIN screen' = (0 .. gridCols - 1) \X (0 .. gridRows - 1)
              /\ Cardinality({ c \in DOMAIN screen' : screen'[c] # "" })
                     = gridCols * gridRows ]_vars

\* a frame is skipped while time has advanced, a click effect is alive and the
\* colour animation has run
C20_SkippedMidAnimation ==
    /\ lastOp = "skip"
    /\ time > 0
    /\ clickEffects # << >>
    /\ colors.animationTime > 0

\* C21: every rendered frame decreases the life of each click effect by 0.016
\* and removes those whose life is then <= 0, also while interactive effects
\* are switched off; the effects left have 0 < life <= maxLife.
C21_DecayOnEveryFrame ==
    [][ frameCount' = frameCount + 1
        => /\ \A i \in DOMAIN clickEffects :
                 IF clickEffects[i].life - FrameDelta > 0
                 THEN \E j \in DOMAIN clickEffects' :
                         clickEffects'[j] = [ clickEffects[i] EXCEPT
                                                !.life = @ - FrameDelta ]
                 ELSE clickEffects[i].id \notin EffectIds(clickEffects')
           /\ \A j \in DOMAIN clickEffects' :
                 /\ clickEffects'[j].life > 0
                 /\ clickEffects'[j].life <= clickEffects'[j].maxLife ]_vars

\* the step the claim states for one point
StatedStep(p) ==
    [ x  |-> IF p.x + p.vx < 0 THEN 0 ELSE IF p.x + p.vx > Unit THEN Unit ELSE p.x + p.vx,
      y  |-> IF p.y + p.vy < 0 THEN 0 ELSE IF p.y + p.vy > Unit THEN Unit ELSE p.y + p.vy,
      vx |-> IF p.x + p.vx <= 0 \/ p.x + p.vx >= Unit THEN 0 - p.vx ELSE p.vx,
      vy |-> IF p.y + p.vy <= 0 \/ p.y + p.vy >= Unit THEN 0 - p.vy ELSE p.vy ]

RECURSIVE StatedSteps(_, _)
StatedSteps(p, n) == IF n = 0 THEN p ELSE StatedSteps(StatedStep(p), n - 1)

\* C22: a getVoronoiValue call moves each of the 8 points by one velocity step,
\* negates a velocity component whose new coordinate is <= 0 or >= 1 and clamps
\* the position, the magnitudes of the velocities staying as they are; a
\* rendered frame with a voronoi pattern in one slot does so gridCols * gridRows
\* times.
C22_SwarmStepPerCall ==
    [][ /\ Len(voronoiPoints') = NumVoronoi
        /\ ops' = ops + 1
           => \A i \in 1 .. NumVoronoi :
                 /\ voronoiPoints'[i] = StatedStep(voronoiPoints[i])
                 /\ Abs(voronoiPoints'[i].vx) = Abs(voronoiPoints[i].vx)
                 /\ Abs(voronoiPoints'[i].vy) = Abs(voronoiPoints[i].vy)
        /\ frameCount' = frameCount + 1
           => \A i \in 1 .. NumVoronoi :
                 voronoiPoints'[i] = StatedSteps(voronoiPoints[i], gridCols * gridRows)
      ]_vars

\* a frame has been rendered after calls that made a point bounce
C22_FrameAfterBounce ==
    /\ lastOp = "draw"
    /\ call.name = "getVoronoiValue"
    /\ \E i \in 1 .. NumVoronoi :
          /\ voronoiPoints[i].vy # VoronoiSeed(1)[i].vy
          /\ voronoiPoints[i].vy # VoronoiSeed(2)[i].vy

\* C23: every operation that changes the kind of the primary or of the
\* secondary pattern to 'cellular' leaves a grid made by initCellular.
C23_ReseededOnActivation ==
    [][ \/ settings.pattern1.type # "cellular" /\ settings'.pattern1.type = "cellular"
        \/ settings.pattern2.type # "cellular" /\ settings'.pattern2.type = "cellular"
        => cellularGrid' \in initCellular ]_vars

\* what the renderer uses of the setting a lock names
LockedValue(name) ==
    CASE name = "backgroundColor" -> << backgroundColor >>
      [] name = "pattern1Color" -> << settings.pattern1.color >>
      [] name = "pattern2Color" -> << settings.pattern2.color >>
      [] name = "pattern1Type" -> << settings.pattern1.type >>
      [] name = "pattern2Type" -> << settings.pattern2.type >>
      [] name = "pattern1Speed" -> << settings.pattern1.speed >>
      [] name = "pattern2Speed" -> << settings.pattern2.speed >>
      [] name = "pattern1Scale" -> << settings.pattern1.scale >>
      [] name = "pattern2Scale" -> << settings.pattern2.scale >>
      [] name = "colorAnimation" -> << colors.animationEnabled, colors.animationType,
                                       colors.animationSpeed >>
      [] name = "colorPalette" -> << colors.usePalette, colors.paletteColors,
                                     colors.paletteIndex, colors.paletteColorMode >>
      [] name = "secondaryPattern" -> << settings.pattern2.enabled >>

\* C24: a randomize click, and the frame after it, leave the value of every
\* locked setting as it was.
C24_LocksRespected ==
    [][ lastOp' = "randomize" \/ (lastOp = "randomize" /\ lastOp' = "draw")
        => \A name \in colors.locks : LockedValue(name)' = LockedValue(name) ]_vars

\* the configuration the renderer uses, in the shape of a decoded code
RenderedConfiguration ==
    [ CodeSettings EXCEPT !.pattern1.color = settings.pattern1.color,
                          !.pattern2.color = settings.pattern2.color,
                          !.colors.blendMode = settings.blendSettings.mode,
                          !.colors.blendAmount = settings.blendSettings.amount ]

\* the copied code is loaded by this step
LoadsCopiedCode ==
    /\ call # NoCall
    /\ call.name = "copyPatternCode"
    /\ lastOp' \in { "loadPatternFromCode", "applyPatternCode", "skip" }
    /\ call'.code = call.code

\* C25: loading the code copied in a configuration makes the configuration
\* used for rendering equal to it in every encoded field.
C25_RoundTrip ==
    [][ LoadsCopiedCode => RenderedConfiguration' = call.codeSettings ]_vars

\* a step of loadPatternFromCode: only it leaves these marks behind
LoadStep ==
    /\ ops' = ops + 1
    /\ lastOp' \in { "loadPatternFromCode", "applyPatternCode", "skip" }

\* invalid as stated: empty, not two parts, or a suffix whose number is not
\* the sum of the payload's char codes modulo 1000
StatedInvalid(code) ==
    \/ code = << >>
    \/ Cardinality({ i \in DOMAIN code : code[i] = 46 }) # 1
    \/ LET dot == CHOOSE i \in DOMAIN code : code[i] = 46
           suffix == parseInt(SubSeq(code, dot + 1, Len(code)))
       IN  suffix.nan \/ suffix.value # SumCodes(SubSeq(code, 1, dot - 1)) % 1000

\* C26: loadPatternFromCode answers an invalid code with an error toast and
\* leaves settings, the grid size and both ramps as they were; the code
\* copied from generatePatternCode passes the checks and is loaded.
C26_InvalidCodeRejected ==
    [][ LoadStep
        => /\ StatedInvalid(call'.code)
                => /\ call'.toast = "error"
                   /\ UNCHANGED << settings, gridCols, gridRows, currentRamp1,
                                   currentRamp2 >>
           /\ ( /\ call # NoCall
                /\ call.name = "copyPatternCode"
                /\ call'.code = call.code )
                => /\ ~StatedInvalid(call.code)
                   /\ call'.toast = "success" ]_vars

\* a typed code with a wrong checksum has been rejected after the blend mode
\* was changed
C26_MismatchRejected ==
    /\ call # NoCall
    /\ call.name = "loadPatternFromCode"
    /\ call.message = "Invalid pattern code (checksum mismatch)"
    /\ ops = 2

\* C27: for every cell of the grid and every scale of the slider's range the
\* mosaic hash lies in [0, 1000000).
C27_MosaicHashInRange ==
    (call # NoCall /\ call.name = "mosaicHash")
        => (call.value >= 0 /\ call.value < MosaicMod)

\* the pending callbacks of a kind
Pending(callbacks) == { i \in DOMAIN timers : timers[i].callback \in callbacks }

\* C28: a click on a download option while isSaving is true starts nothing,
\* exportCanvasFile is called once per accepted click, and isSaving returns to
\* false after every accepted click, also when exportCanvasFile throws.
C28_OneExportInFlight ==
    /\ [](/\ Cardinality(Pending({ "export", "reset" })) = IF isSaving THEN 1 ELSE 0
          /\ exported.accepted = exported.calls + Cardinality(Pending({ "export" })))
    /\ [][ (isSaving /\ lastOp' = "downloadOption" /\ ops' = ops + 1)
           => UNCHANGED << isSaving, timers, exported >> ]_vars
    /\ (isSaving ~> ~isSaving)

\* a second click has been accepted and served after an export that threw
C28_ExportAfterThrow ==
    /\ exported.thrown >= 1
    /\ exported.accepted = 2
    /\ exported.calls = 2
    /\ ~isSaving

\* C29: once no restore timer of createCustomGif is pending, canvas, width and
\* height are those from before the first GIF export; no recording starts
\* while isPaused is true.
C29_CanvasRestored ==
    /\ []((exported.recordings > 0 /\ Pending({ "restore" }) = { }) => canvas = MainCanvas)
    /\ [][ exported'.recordings > exported.recordings => ~isPaused ]_vars

\* C30: at most one stream is live; isWebcamActive only with a webcamStream;
\* when stopWebcam has returned no stream is live, webcamStream and the
\* interval are null and both flags are false.
C30_OneLiveStream ==
    /\ Cardinality(webcam.live) <= 1
    /\ webcam.isWebcamActive => webcam.webcamStream # 0
    /\ lastOp = "stopWebcam"
          => /\ webcam.live = { }
             /\ webcam.webcamStream = 0
             /\ webcam.webcamInterval = 0
             /\ webcam.intervals = { }
             /\ ~webcam.isWebcamActive
             /\ ~webcam.webcamMode

====
